---- MODULE Spec2Model ----
(***************************************************************************)
(* Records / accounting web application (src/app.py).                      *)
(*                                                                         *)
(* The relational store is modelled table by table; a request handler is   *)
(* one action, or one action per commit where it commits twice.  Text that *)
(* the handlers parse or format (form amounts,                             *)
(* labels, task titles, spreadsheet cells) is modelled as sequences of     *)
(* one-character strings so that parsing and formatting are computed.      *)
(* Money is held in hundredths (two decimals), exactly; the binary         *)
(* rounding of Python floats is not modelled.                              *)
(***************************************************************************)
EXTENDS Integers, Sequences, FiniteSets, TLC

VARIABLES
    daily,        \* daily_header + daily_inputs + daily_expenses_general + daily_expenses_petty
    settings,     \* the row of monthly_commission_settings
    commissions,  \* monthly_commissions, in id order
    calc,         \* an application of calculate_monthly_commission: its arguments, its result
    commitments,  \* financial_commitments
    tasks,        \* tasks
    commitSeq,    \* the highest id financial_commitments has given out (AUTOINCREMENT)
    taskSeq,      \* the highest id tasks has given out
    pc,           \* the commitments request in progress, between its two commits
    records,      \* records_es1, records_es2, records_es3
    employees,    \* employees
    rowSeq,       \* for records_* and employees, the highest id the table has given out
    sheets,       \* the spreadsheet: for each worksheet, what get_all_values returns
    users,        \* users
    permissions,  \* permissions: one row per user and key
    userSeq,      \* the highest id users has given out
    sessions,     \* for each browser, the Flask session its cookie carries
    inflight,     \* for each worker of the server, the save it is in the middle of
    dblock,       \* the worker whose transaction holds SQLite's write lock (0: none)
    gate,         \* the last request to a route gated by a key: its browser, the key, the verdict
    nreq,         \* requests handled so far in this run
    resp          \* what the last request did: its operation, its status, what it returned

ledgerVars == <<daily>>
commissionVars == <<settings, commissions>>
taskVars == <<commitments, tasks, commitSeq, taskSeq, pc>>
registryVars == <<records, employees, rowSeq>>
accountVars == <<users, permissions, userSeq>>
authVars == <<accountVars, sessions>>
txnVars == <<inflight, dblock>>

vars == <<ledgerVars, commissionVars, calc, taskVars, registryVars, sheets, authVars,
          txnVars, gate, nreq, resp>>

\* what the handlers of one component leave alone; the accounts and the sessions are
\* left to the request around the handler (its bootstrap, its gate)
notLedger == <<commissionVars, calc, taskVars, registryVars, sheets, txnVars>>
notCommission == <<ledgerVars, calc, taskVars, registryVars, sheets, txnVars, nreq>>
notCalc == <<ledgerVars, commissionVars, taskVars, registryVars, sheets, authVars,
            txnVars, gate, nreq, resp>>
notTasks == <<ledgerVars, commissionVars, calc, registryVars, txnVars>>
notSheets == <<ledgerVars, commissionVars, calc, taskVars, registryVars, authVars,
              txnVars, gate>>
notAccounts == <<ledgerVars, commissionVars, calc, taskVars, registryVars, sheets,
                txnVars, gate>>
notRegistry == <<ledgerVars, commissionVars, calc, taskVars, txnVars>>

(***************************************************************************)
(* Bounds of the model.                                                    *)
(***************************************************************************)
\* most line-item rows one daily submission carries (over its three lists)
MaxRows == 2
\* most daily saves in one run
MaxSaves == 2
\* most page views in one run of the ledger's read-only pages
MaxViews == 1

(***************************************************************************)
(* Text helpers: str.strip, str.replace(",", ""), float().                 *)
(***************************************************************************)
DigitChars == {"0", "1", "2", "3", "4", "5", "6", "7", "8", "9"}

DigitValue(c) ==
    CHOOSE n \in 0..9 : <<"0", "1", "2", "3", "4", "5", "6", "7", "8", "9">>[n + 1] = c

RECURSIVE LStrip(_)
LStrip(s) == IF s # <<>> /\ Head(s) = " " THEN LStrip(Tail(s)) ELSE s

RECURSIVE RStrip(_)
RStrip(s) ==
    IF s # <<>> /\ s[Len(s)] = " " THEN RStrip(SubSeq(s, 1, Len(s) - 1)) ELSE s

\* str.strip()
Strip(s) == RStrip(LStrip(s))

\* str.replace(",", "")
RemoveCommas(s) == SelectSeq(s, LAMBDA c : c # ",")

RECURSIVE DigitsValue(_)
DigitsValue(s) ==
    IF s = <<>> THEN 0
    ELSE 10 * DigitsValue(SubSeq(s, 1, Len(s) - 1)) + DigitValue(s[Len(s)])

AllDigits(s) == \A i \in 1..Len(s) : s[i] \in DigitChars

\* position of the first "." of s, or 0
DotAt(s) ==
    IF \E i \in 1..Len(s) : s[i] = "."
    THEN CHOOSE i \in 1..Len(s) : s[i] = "." /\ \A j \in 1..(i - 1) : s[j] # "."
    ELSE 0

RECURSIVE Pow10(_)
Pow10(n) == IF n = 0 THEN 1 ELSE 10 * Pow10(n - 1)

RECURSIVE PadZeros(_, _)
PadZeros(s, n) == IF Len(s) >= n THEN s ELSE PadZeros(Append(s, "0"), n)

\* the unsigned decimal literals float() accepts: digits, at most one ".", at least
\* one digit.  The model reads numbers of at most `places` decimals.
IsUnsigned(s, places) ==
    LET d == DotAt(s)
        ip == IF d = 0 THEN s ELSE SubSeq(s, 1, d - 1)
        fp == IF d = 0 THEN <<>> ELSE SubSeq(s, d + 1, Len(s))
    IN  /\ AllDigits(ip)
        /\ AllDigits(fp)
        /\ Len(ip) + Len(fp) > 0
        /\ Len(fp) <= places

\* its value, in units of 10^-places
UnsignedValue(s, places) ==
    LET d == DotAt(s)
        ip == IF d = 0 THEN s ELSE SubSeq(s, 1, d - 1)
        fp == IF d = 0 THEN <<>> ELSE SubSeq(s, d + 1, Len(s))
    IN  Pow10(places) * DigitsValue(ip) + DigitsValue(PadZeros(fp, places))

\* float(s) succeeds (float strips blanks itself and takes one sign)
IsFloat(s, places) ==
    LET t == Strip(s)
    IN  IF t # <<>> /\ Head(t) \in {"-", "+"}
        THEN IsUnsigned(Tail(t), places)
        ELSE IsUnsigned(t, places)

\* float(s), in units of 10^-places
FloatValue(s, places) ==
    LET t == Strip(s)
    IN  IF t # <<>> /\ Head(t) = "-" THEN 0 - UnsignedValue(Tail(t), places)
        ELSE IF t # <<>> /\ Head(t) = "+" THEN UnsignedValue(Tail(t), places)
        ELSE UnsignedValue(t, places)

\* money is held in hundredths
MoneyPlaces == 2

\* _to_float(v, default): blank or unparsable gives the default
ToFloat(v, default) ==
    LET s == RemoveCommas(Strip(v))
    IN  IF s = <<>> THEN default
        ELSE IF IsFloat(s, MoneyPlaces) THEN FloatValue(s, MoneyPlaces)
        ELSE default

(***************************************************************************)
(* Daily accounting ledger.                                                *)
(***************************************************************************)
Kinds == {"ES1", "ES2"}

\* ISO dates, in calendar order (SQLite compares them as text)
DaySeq == <<"2024-01-01", "2024-01-02">>
Days == {DaySeq[i] : i \in 1..Len(DaySeq)}
DayOrd(d) == CHOOSE i \in 1..Len(DaySeq) : DaySeq[i] = d

\* the (branch, date) pairs the saves of the model are for
SaveKeys == {<<"ES1", d>> : d \in Days}

\* "(بدون عنوان)", the label given to an unlabelled row
Placeholder == <<"(untitled)">>

\* the header fields of a submission, as typed
HeaderForms ==
    { [cash_start |-> <<>>, cash_end |-> <<"x">>, total_in_enjaz |-> <<>>, notes |-> <<" ">>],
      [cash_start |-> <<"1", "0", "0">>, cash_end |-> <<"1", "5", "0">>,
       total_in_enjaz |-> <<"3", "2", "0">>, notes |-> <<"n">>] }

\* one (label, amount) row of a submission, as typed
LineForms ==
    { <<<<" ">>, <<>>>>,
      <<<<>>, <<"3", "0">>>>,
      <<<<"a">>, <<"1", ",", "2", "0", "0">>>> }

RECURSIVE SeqsOfLen(_, _)
SeqsOfLen(S, n) ==
    IF n = 0 THEN {<<>>}
    ELSE {Append(s, x) : s \in SeqsOfLen(S, n - 1), x \in S}

SeqsUpTo(S, n) == UNION {SeqsOfLen(S, k) : k \in 0..n}

\* the three line-item lists of a submission
LineLists ==
    { [inputs |-> i, general |-> g, petty |-> p] :
        i \in SeqsUpTo(LineForms, MaxRows),
        g \in SeqsUpTo(LineForms, MaxRows),
        p \in SeqsUpTo(LineForms, MaxRows) }

Submissions == {f \in LineLists : Len(f.inputs) + Len(f.general) + Len(f.petty) <= MaxRows}

EmptyDaily == [header |-> <<>>, inputs |-> <<>>, general |-> <<>>, petty |-> <<>>]

\* SELECT id FROM daily_header WHERE es=? AND day_date=?   (0: no row)
HeaderId(hs, kind, day) ==
    IF \E i \in 1..Len(hs) : hs[i].es = kind /\ hs[i].day_date = day
    THEN CHOOSE i \in 1..Len(hs) : hs[i].es = kind /\ hs[i].day_date = day
    ELSE 0

\* a faulty variant: a plain INSERT into a table without UNIQUE(es, day_date)
InsertHeaderAlways(hs, kind, day) ==
    Append(hs, [es |-> kind, day_date |-> day, cash_start |-> 0, cash_end |-> 0,
                total_in_enjaz |-> 0, notes |-> <<>>])

\* INSERT OR IGNORE INTO daily_header (es, day_date, created_at)
InsertOrIgnoreHeader(hs, kind, day) ==
    IF HeaderId(hs, kind, day) # 0 THEN hs
    ELSE Append(hs, [es |-> kind, day_date |-> day, cash_start |-> 0, cash_end |-> 0,
                     total_in_enjaz |-> 0, notes |-> <<>>])

\* UPDATE daily_header SET cash_start=?, cash_end=?, total_in_enjaz=?, notes=? WHERE id=?
UpdateHeader(hs, hid, hf) ==
    [hs EXCEPT ![hid] =
        [@ EXCEPT !.cash_start = ToFloat(hf.cash_start, 0),
                  !.cash_end = ToFloat(hf.cash_end, 0),
                  !.total_in_enjaz = ToFloat(hf.total_in_enjaz, 0),
                  !.notes = Strip(hf.notes)]]

\* a faulty variant: the rows of the header are not deleted before the new ones go in
KeepLines(rows, hid) == rows

\* DELETE FROM <lines> WHERE header_id=?
DeleteLines(rows, hid) == SelectSeq(rows, LAMBDA r : r.header_id # hid)

\* a faulty variant: a row without a label is dropped whatever its amount
KeptLabelled(hid, lines) ==
    LET keep == SelectSeq(lines, LAMBDA l : Strip(l[1]) # <<>>)
    IN  [i \in 1..Len(keep) |->
            [header_id |-> hid, type |-> Strip(keep[i][1]),
             amount |-> ToFloat(keep[i][2], 0)]]

\* the rows one loop of the save inserts: a row is kept when it has a label or a
\* nonzero amount, and an unlabelled one gets the placeholder
RECURSIVE KeptLines(_, _)
KeptLines(hid, lines) ==
    IF lines = <<>> THEN <<>>
    ELSE LET t == Strip(Head(lines)[1])
             amt == ToFloat(Head(lines)[2], 0)
             rest == KeptLines(hid, Tail(lines))
         IN  IF t # <<>> \/ amt # 0
             THEN <<[header_id |-> hid,
                     type |-> IF t = <<>> THEN Placeholder ELSE t,
                     amount |-> amt]>> \o rest
             ELSE rest

\* the transaction of a save, statement group by statement group
TxnHeader(d, kind, day, hf) ==
    LET hs == InsertOrIgnoreHeader(d.header, kind, day)
    IN  [d EXCEPT !.header = UpdateHeader(hs, HeaderId(hs, kind, day), hf)]

TxnDelete(d, hid) ==
    [d EXCEPT !.inputs = DeleteLines(@, hid),
              !.general = DeleteLines(@, hid),
              !.petty = DeleteLines(@, hid)]

TxnInputs(d, hid, f) == [d EXCEPT !.inputs = @ \o KeptLines(hid, f.inputs)]
TxnGeneral(d, hid, f) == [d EXCEPT !.general = @ \o KeptLines(hid, f.general)]
TxnPetty(d, hid, f) == [d EXCEPT !.petty = @ \o KeptLines(hid, f.petty)]

\* the statement groups after which a save can raise
FailPoints == {"header", "delete", "inputs", "general", "petty"}

\* the uncommitted state of the transaction when the save stops after group `upto`
TxnAt(d, kind, day, hf, f, upto) ==
    LET t1 == TxnHeader(d, kind, day, hf)
        hid == HeaderId(t1.header, kind, day)
        t2 == TxnDelete(t1, hid)
        t3 == TxnInputs(t2, hid, f)
        t4 == TxnGeneral(t3, hid, f)
        t5 == TxnPetty(t4, hid, f)
    IN  CASE upto = "header" -> t1
          [] upto = "delete" -> t2
          [] upto = "inputs" -> t3
          [] upto = "general" -> t4
          [] OTHER -> t5

\* a faulty variant: the commit is lost
NoCommit(committed, txn) == committed

\* db.commit()
Commit(committed, txn) == txn

\* a faulty variant: every statement is committed as it runs: nothing is rolled back
RollbackKeepsWrites(committed, txn) == txn

\* the connection is closed without commit: the open transaction is rolled back
Rollback(committed, txn) == committed

NoResponse == [op |-> "none", status |-> 0]

\* POST /accounting/<kind>/daily: the save runs to its commit and redirects to the day
DailySave(kind, day, hf, f) ==
    /\ nreq < MaxSaves
    /\ UNCHANGED notLedger
    /\ nreq' = nreq + 1
    /\ daily' = Commit(daily, TxnAt(daily, kind, day, hf, f, "petty"))
    /\ resp' = [op |-> "daily_save", status |-> 302, kind |-> kind, day_date |-> day,
                header |-> hf, lines |-> f]

\* POST /accounting/<kind>/daily: a statement raises, the request ends in a 500
DailySaveFails(kind, day, hf, f, at) ==
    /\ nreq < MaxSaves
    /\ UNCHANGED notLedger
    /\ nreq' = nreq + 1
    /\ daily' = Rollback(daily, TxnAt(daily, kind, day, hf, f, at))
    /\ resp' = [op |-> "daily_save", status |-> 500, kind |-> kind, day_date |-> day]

\* SELECT ... FROM <lines> WHERE header_id=? ORDER BY id
LinesOf(rows, hid) == SelectSeq(rows, LAMBDA r : r.header_id = hid)

\* _sum(rows)
RECURSIVE SumAmounts(_)
SumAmounts(rows) ==
    IF rows = <<>> THEN 0 ELSE Head(rows).amount + SumAmounts(Tail(rows))

\* a faulty variant: the opening cash is added instead of subtracted
DailyTotalsAddsCashStart(d, hid) ==
    LET inputs == SumAmounts(LinesOf(d.inputs, hid))
        general == SumAmounts(LinesOf(d.general, hid))
        petty == SumAmounts(LinesOf(d.petty, hid))
        expenses == general + petty
        cash_start == IF hid # 0 THEN d.header[hid].cash_start ELSE 0
        cash_end == IF hid # 0 THEN d.header[hid].cash_end ELSE 0
        total_in_enjaz == IF hid # 0 THEN d.header[hid].total_in_enjaz ELSE 0
        total_overall == inputs + expenses + cash_end + cash_start
    IN  [inputs |-> inputs, general |-> general, petty |-> petty, expenses |-> expenses,
         cash_start |-> cash_start, cash_end |-> cash_end,
         total_overall |-> total_overall, total_in_enjaz |-> total_in_enjaz,
         error |-> total_overall - total_in_enjaz]

\* the totals of the daily page
DailyTotals(d, hid) ==
    LET inputs == SumAmounts(LinesOf(d.inputs, hid))
        general == SumAmounts(LinesOf(d.general, hid))
        petty == SumAmounts(LinesOf(d.petty, hid))
        expenses == general + petty
        cash_start == IF hid # 0 THEN d.header[hid].cash_start ELSE 0
        cash_end == IF hid # 0 THEN d.header[hid].cash_end ELSE 0
        total_in_enjaz == IF hid # 0 THEN d.header[hid].total_in_enjaz ELSE 0
        total_overall == inputs + expenses + cash_end - cash_start
    IN  [inputs |-> inputs, general |-> general, petty |-> petty, expenses |-> expenses,
         cash_start |-> cash_start, cash_end |-> cash_end,
         total_overall |-> total_overall, total_in_enjaz |-> total_in_enjaz,
         error |-> total_overall - total_in_enjaz]

\* GET /accounting/<kind>/daily?date=
DailyGet(kind, day) ==
    /\ nreq < MaxViews
    /\ UNCHANGED notLedger
    /\ nreq' = nreq + 1
    /\ daily' = daily
    /\ LET hid == HeaderId(daily.header, kind, day)
       IN  resp' = [op |-> "daily", status |-> 200, kind |-> kind, day_date |-> day,
                    header |-> hid,
                    inputs |-> LinesOf(daily.inputs, hid),
                    gen |-> LinesOf(daily.general, hid),
                    petty |-> LinesOf(daily.petty, hid),
                    totals |-> DailyTotals(daily, hid)]

\* SELECT id ... WHERE es=? AND day_date BETWEEN ? AND ? ORDER BY day_date DESC
RECURSIVE ByDayDesc(_, _)
ByDayDesc(hs, ids) ==
    IF ids = {} THEN <<>>
    ELSE LET top == CHOOSE i \in ids :
                        \A j \in ids : DayOrd(hs[j].day_date) <= DayOrd(hs[i].day_date)
         IN  <<top>> \o ByDayDesc(hs, ids \ {top})

HeadersInRange(hs, kind, from, to) ==
    ByDayDesc(hs, {i \in 1..Len(hs) :
                      /\ hs[i].es = kind
                      /\ DayOrd(from) <= DayOrd(hs[i].day_date)
                      /\ DayOrd(hs[i].day_date) <= DayOrd(to)})

\* the row of one day in the movements page
MovementRow(d, hid) ==
    LET total_inputs == SumAmounts(LinesOf(d.inputs, hid))
        total_general == SumAmounts(LinesOf(d.general, hid))
        total_petty == SumAmounts(LinesOf(d.petty, hid))
        expenses == total_general + total_petty
        cash_start == d.header[hid].cash_start
        cash_end == d.header[hid].cash_end
        total_in_enjaz == d.header[hid].total_in_enjaz
        total_overall == total_inputs + expenses + cash_end - cash_start
    IN  [day_date |-> d.header[hid].day_date,
         cash_start |-> cash_start, cash_end |-> cash_end,
         total_inputs |-> total_inputs, total_general |-> total_general,
         total_petty |-> total_petty, expenses |-> expenses,
         total_in_enjaz |-> total_in_enjaz, total_overall |-> total_overall,
         error |-> total_overall - total_in_enjaz]

\* the running sums of the loop over the days: overall_inputs += total_inputs, ...
RECURSIVE Accumulate(_)
Accumulate(rows) ==
    IF rows = <<>>
    THEN [inputs |-> 0, general |-> 0, petty |-> 0,
          cash_start |-> 0, cash_end |-> 0, total_in_enjaz |-> 0]
    ELSE LET acc == Accumulate(SubSeq(rows, 1, Len(rows) - 1))
             r == rows[Len(rows)]
         IN  [inputs |-> acc.inputs + r.total_inputs,
              general |-> acc.general + r.total_general,
              petty |-> acc.petty + r.total_petty,
              cash_start |-> acc.cash_start + r.cash_start,
              cash_end |-> acc.cash_end + r.cash_end,
              total_in_enjaz |-> acc.total_in_enjaz + r.total_in_enjaz]

\* a faulty variant: the overall expenses leave the petty expenses out
OverallWithoutPetty(rows) ==
    LET acc == Accumulate(rows)
        overall_expenses == acc.general
        overall_total_overall ==
            acc.inputs + overall_expenses + acc.cash_end - acc.cash_start
    IN  [inputs |-> acc.inputs, general |-> acc.general, petty |-> acc.petty,
         expenses |-> overall_expenses,
         cash_start |-> acc.cash_start, cash_end |-> acc.cash_end,
         total_in_enjaz |-> acc.total_in_enjaz,
         total_overall |-> overall_total_overall,
         error |-> overall_total_overall - acc.total_in_enjaz]

\* the overall row: the sums, and the formula applied to the sums
Overall(rows) ==
    LET acc == Accumulate(rows)
        overall_expenses == acc.general + acc.petty
        overall_total_overall ==
            acc.inputs + overall_expenses + acc.cash_end - acc.cash_start
    IN  [inputs |-> acc.inputs, general |-> acc.general, petty |-> acc.petty,
         expenses |-> overall_expenses,
         cash_start |-> acc.cash_start, cash_end |-> acc.cash_end,
         total_in_enjaz |-> acc.total_in_enjaz,
         total_overall |-> overall_total_overall,
         error |-> overall_total_overall - acc.total_in_enjaz]

RECURSIVE MapRows(_, _)
MapRows(d, hids) ==
    IF hids = <<>> THEN <<>> ELSE <<MovementRow(d, Head(hids))>> \o MapRows(d, Tail(hids))

\* GET /accounting/<kind>/movements?from=&to=
Movements(kind, from, to) ==
    /\ nreq < MaxViews
    /\ UNCHANGED notLedger
    /\ nreq' = nreq + 1
    /\ daily' = daily
    /\ LET rows == MapRows(daily, HeadersInRange(daily.header, kind, from, to))
       IN  resp' = [op |-> "movements", status |-> 200, kind |-> kind,
                    date_from |-> from, date_to |-> to,
                    rows |-> rows, overall |-> Overall(rows)]

\* one committed save on top of a store
SaveOn(d, s) == Commit(d, TxnAt(d, s.key[1], s.key[2], s.header, s.lines, "petty"))

SaveRequests ==
    {[key |-> k, header |-> hf, lines |-> f] : k \in SaveKeys, hf \in HeaderForms, f \in Submissions}

\* the ledgers that at most n saves leave
RECURSIVE LedgersAfter(_)
LedgersAfter(n) ==
    IF n = 0 THEN {EmptyDaily}
    ELSE LET prev == LedgersAfter(n - 1)
         IN  prev \cup {SaveOn(d, s) : d \in prev, s \in SaveRequests}

(***************************************************************************)
(* Monthly commission.                                                     *)
(***************************************************************************)
\* the commission rate is held in thousandths (0.008 is 8)
RatePlaces == 3
RateScale == Pow10(RatePlaces)
MoneyScale == Pow10(MoneyPlaces)

\* INSERT OR IGNORE INTO monthly_commission_settings ... VALUES (1, 0.008, 200, 6, ...)
DefaultSettings ==
    [commission_rate |-> 8, fixed_deduction |-> 200 * MoneyScale, employees_count |-> 6]

\* a faulty variant: the amounts are computed from the default settings, whatever the
\* settings handed over
CalculateFromDefaults(sales, s) ==
    [total_commission |-> sales * DefaultSettings.commission_rate,
     employee_commission |->
        <<sales * DefaultSettings.commission_rate
             - DefaultSettings.fixed_deduction * RateScale,
          DefaultSettings.employees_count>>]

\* calculate_monthly_commission(sales, settings).  A product of money and rate is in
\* units of 10^-(MoneyPlaces + RatePlaces); the quotient is kept as <<numerator,
\* denominator>>.
CalculateMonthlyCommission(sales, s) ==
    LET rate == s.commission_rate
        deduction == s.fixed_deduction
        emp_count == IF s.employees_count = 0 THEN 1 ELSE s.employees_count
        total_commission == sales * rate
    IN  [total_commission |-> total_commission,
         employee_commission |-> <<total_commission - deduction * RateScale, emp_count>>]

\* int(s) succeeds: blanks around, one sign, digits
IsInt(s) ==
    LET t == Strip(s)
        u == IF t # <<>> /\ Head(t) \in {"-", "+"} THEN Tail(t) ELSE t
    IN  u # <<>> /\ AllDigits(u)

IntValue(s) ==
    LET t == Strip(s)
    IN  IF t # <<>> /\ Head(t) = "-" THEN 0 - DigitsValue(Tail(t))
        ELSE IF t # <<>> /\ Head(t) = "+" THEN DigitsValue(Tail(t))
        ELSE DigitsValue(t)

\* request.form.get(name) or default
OrDefault(v, default) == IF v = <<>> THEN default ELSE v

\* the settings form, as typed
SettingsForms ==
    { [rate |-> r, base_deduction |-> d, employees_count |-> e] :
        r \in {<<"0", ".", "0", "1">>, <<"x">>},
        d \in {<<"5", "0">>},
        e \in {<<>>, <<"0">>, <<"-", "3">>, <<"2">>, <<"2", ".", "5">>} }

\* the month form, as typed
MonthForms ==
    { [month |-> m, sales |-> v] :
        m \in {<<>>, <<"2024-01">>, <<" ", "2024-02">>},
        v \in {<<>>, <<"x">>, <<"1", "0", "0", "0">>, <<"2", "5", "0", "0", ".", "5">>,
               <<"1", ",", "0", "0", "0">>} }

\* the three values of the settings form parse
SettingsFormValid(f) ==
    /\ IsFloat(Strip(OrDefault(f.rate, <<"0">>)), RatePlaces)
    /\ IsFloat(Strip(OrDefault(f.base_deduction, <<"0">>)), MoneyPlaces)
    /\ IsInt(Strip(OrDefault(f.employees_count, <<"1">>)))

\* a faulty variant: the employee count is stored as typed
SettingsAsTyped(f) ==
    [commission_rate |-> FloatValue(Strip(OrDefault(f.rate, <<"0">>)), RatePlaces),
     fixed_deduction |->
        FloatValue(Strip(OrDefault(f.base_deduction, <<"0">>)), MoneyPlaces),
     employees_count |-> IntValue(Strip(OrDefault(f.employees_count, <<"1">>)))]

\* the parsed settings; an employee count under 1 is raised to 1
SettingsOfForm(f) ==
    LET n == IntValue(Strip(OrDefault(f.employees_count, <<"1">>)))
    IN  [commission_rate |-> FloatValue(Strip(OrDefault(f.rate, <<"0">>)), RatePlaces),
         fixed_deduction |->
            FloatValue(Strip(OrDefault(f.base_deduction, <<"0">>)), MoneyPlaces),
         employees_count |-> IF n < 1 THEN 1 ELSE n]

\* a faulty variant: saving the settings recomputes every stored month from them
RowsRecomputedFromSettings(rows, s) ==
    [i \in 1..Len(rows) |->
        LET c == CalculateMonthlyCommission(rows[i].sales_before_tax, s)
        IN  [rows[i] EXCEPT !.total_commission = c.total_commission,
                            !.employee_commission = c.employee_commission,
                            !.rate_snapshot = s.commission_rate,
                            !.deduction_snapshot = s.fixed_deduction,
                            !.employees_snapshot = s.employees_count]]

\* monthly_commissions after UPDATE monthly_commission_settings ...: the statement
\* names the settings table alone
RowsAfterSettingsSave(rows, s) == rows

\* POST action=save_settings
SaveSettings(f) ==
    /\ IF SettingsFormValid(f)
       THEN /\ settings' = SettingsOfForm(f)
            /\ commissions' = RowsAfterSettingsSave(commissions, SettingsOfForm(f))
            /\ resp' = [op |-> "save_settings", status |-> 302, flash |-> "success"]
       ELSE /\ UNCHANGED <<settings, commissions>>
            /\ resp' = [op |-> "save_settings", status |-> 302, flash |-> "warning"]
    /\ UNCHANGED notCommission

\* SELECT id FROM monthly_commissions WHERE month=?   (0: no row)
MonthRow(rows, month) ==
    IF \E i \in 1..Len(rows) : rows[i].month = month
    THEN CHOOSE i \in 1..Len(rows) : rows[i].month = month
    ELSE 0

\* the row a save writes: the computed totals and the settings they were computed from
CommissionRow(month, sales, s) ==
    LET c == CalculateMonthlyCommission(sales, s)
    IN  [month |-> month, sales_before_tax |-> sales,
         total_commission |-> c.total_commission,
         employee_commission |-> c.employee_commission,
         rate_snapshot |-> s.commission_rate,
         deduction_snapshot |-> s.fixed_deduction,
         employees_snapshot |-> s.employees_count]

\* UPDATE monthly_commissions ... WHERE month=?   or   INSERT INTO monthly_commissions
UpsertCommission(rows, row) ==
    LET i == MonthRow(rows, row.month)
    IN  IF i # 0 THEN [rows EXCEPT ![i] = row] ELSE Append(rows, row)

\* POST (a month and its sales): the settings are those read when the request began
SaveCommission(f) ==
    LET month == Strip(f.month)
        sales_raw == Strip(f.sales)
    IN  /\ IF month = <<>> \/ ~IsFloat(sales_raw, MoneyPlaces)
           THEN /\ commissions' = commissions
                /\ resp' = [op |-> "save_commission", status |-> 302, flash |-> "warning",
                            month |-> month]
           ELSE /\ commissions' =
                     UpsertCommission(commissions,
                        CommissionRow(month, FloatValue(sales_raw, MoneyPlaces), settings))
                /\ resp' = [op |-> "save_commission", status |-> 302, flash |-> "success",
                            month |-> month]
        /\ settings' = settings
        /\ UNCHANGED notCommission

\* GET /accounting/monthly-commission: the stored rows, as stored
CommissionPage ==
    /\ resp' = [op |-> "commission_page", status |-> 200,
                rows |-> commissions, settings |-> settings]
    /\ UNCHANGED <<settings, commissions>>
    /\ UNCHANGED notCommission

\* the arguments calculate_monthly_commission is applied to
CalcSales == {0, 1000 * MoneyScale, 250050}
CalcSettings ==
    { [commission_rate |-> r, fixed_deduction |-> d, employees_count |-> n] :
        r \in {0, 8, 10}, d \in {0, 200 * MoneyScale}, n \in {-2, -1, 0, 1, 2, 6} }

NoCalc == [sales |-> 0, settings |-> DefaultSettings, done |-> FALSE,
           total_commission |-> 0, employee_commission |-> <<0, 1>>]

Calculate ==
    /\ ~calc.done
    /\ LET c == CalculateMonthlyCommission(calc.sales, calc.settings)
       IN  calc' = [calc EXCEPT !.done = TRUE,
                                !.total_commission = c.total_commission,
                                !.employee_commission = c.employee_commission]
    /\ UNCHANGED notCalc

(***************************************************************************)
(* Integers as text, and dates.  A date is <<year, month, day>>; None,     *)
(* where a date is expected, is <<>>.                                      *)
(***************************************************************************)
Max(a, b) == IF a >= b THEN a ELSE b

\* str(n) for n >= 0, which is also the text of a cell an integer was written to
RECURSIVE FormatInt(_)
FormatInt(n) ==
    IF n < 10 THEN <<<<"0", "1", "2", "3", "4", "5", "6", "7", "8", "9">>[n + 1]>>
    ELSE FormatInt(n \div 10) \o FormatInt(n % 10)

NoDate == <<>>

IsLeap(y) == (y % 4 = 0 /\ y % 100 # 0) \/ y % 400 = 0

DaysInMonth(y, m) ==
    IF m \in {1, 3, 5, 7, 8, 10, 12} THEN 31
    ELSE IF m \in {4, 6, 9, 11} THEN 30
    ELSE IF IsLeap(y) THEN 29 ELSE 28

DaysBeforeYear(y) ==
    LET p == y - 1 IN p * 365 + (p \div 4) - (p \div 100) + (p \div 400)

RECURSIVE DaysBeforeMonth(_, _)
DaysBeforeMonth(y, m) ==
    IF m = 1 THEN 0 ELSE DaysBeforeMonth(y, m - 1) + DaysInMonth(y, m - 1)

\* date.toordinal(): 0001-01-01 is day 1
toordinal(d) == DaysBeforeYear(d[1]) + DaysBeforeMonth(d[1], d[2]) + d[3]

\* n written with at least w digits
ZeroPad(n, w) ==
    LET t == FormatInt(n)
    IN  [i \in 1..(IF Len(t) < w THEN w - Len(t) ELSE 0) |-> "0"] \o t

\* date.isoformat(): YYYY-MM-DD
isoformat(d) == ZeroPad(d[1], 4) \o <<"-">> \o ZeroPad(d[2], 2) \o <<"-">> \o ZeroPad(d[3], 2)

\* the same layout for numbers that need not be a date
YMD(y, m, d) == ZeroPad(y, 4) \o <<"-">> \o ZeroPad(m, 2) \o <<"-">> \o ZeroPad(d, 2)

\* date.fromisoformat(s), NoDate where it raises: ten characters YYYY-MM-DD that
\* name a day of the calendar
fromisoformat(s) ==
    IF /\ Len(s) = 10
       /\ s[5] = "-" /\ s[8] = "-"
       /\ AllDigits(SubSeq(s, 1, 4)) /\ AllDigits(SubSeq(s, 6, 7))
       /\ AllDigits(SubSeq(s, 9, 10))
    THEN LET y == DigitsValue(SubSeq(s, 1, 4))
             m == DigitsValue(SubSeq(s, 6, 7))
             d == DigitsValue(SubSeq(s, 9, 10))
         IN  IF y >= 1 /\ m \in 1..12 /\ d >= 1 /\ d <= DaysInMonth(y, m)
             THEN <<y, m, d>> ELSE NoDate
    ELSE NoDate

\* (expiry - date.today()).days, for an expiry that is a date
days_left(expiry, today) == toordinal(expiry) - toordinal(today)

\* a faulty variant: the day of expiry itself still counts as a warning
StatusColorFromZero(expiry, today) ==
    IF expiry = NoDate THEN "bg-blue"
    ELSE IF days_left(expiry, today) > 45 THEN "bg-green"
    ELSE IF 0 <= days_left(expiry, today) /\ days_left(expiry, today) <= 45 THEN "bg-yellow"
    ELSE "bg-red"

status_color(expiry, today) ==
    IF expiry = NoDate THEN "bg-blue"
    ELSE LET dl == days_left(expiry, today)
         IN  IF dl > 45 THEN "bg-green"
             ELSE IF 1 <= dl /\ dl <= 45 THEN "bg-yellow"
             ELSE "bg-red"

\* the days the application is run on, and the expiry dates it is shown
Todays == {<<2024, 12, 31>>, <<2025, 1, 1>>}
Dates ==
    {<<y, m, d>> : y \in {2024, 2025}, m \in 1..12, d \in 1..31} \ 
    {<<y, m, d>> \in {2024, 2025} \X (1..12) \X (1..31) : d > DaysInMonth(y, m)}

\* status_color applied to one expiry on one day
NoColoring == [expiry |-> NoDate, today |-> <<2025, 1, 1>>, done |-> FALSE, color |-> ""]
StatusColor ==
    /\ ~calc.done
    /\ calc' = [calc EXCEPT !.done = TRUE, !.color = status_color(calc.expiry, calc.today)]
    /\ UNCHANGED notCalc

(***************************************************************************)
(* The spreadsheet mirror.  A worksheet is the list of rows get_all_values *)
(* returns; a cell is its text.                                            *)
(***************************************************************************)

Tabs == {"tasks_manual", "records_es1", "records_es2", "records_es3", "employees"}
NoSheets == [t \in Tabs |-> <<>>]

\* a faulty variant: the headers are inserted above a first row that is kept
WsInsertHeaders(values, headers) ==
    IF values = <<>> THEN <<headers>>
    ELSE IF values[1] # headers THEN <<headers>> \o values
    ELSE values

\* ws_ensure_headers(ws, headers)
WsEnsureHeaders(values, headers) ==
    IF values = <<>> THEN <<headers>>
    ELSE IF values[1] # headers THEN <<headers>> \o Tail(values)
    ELSE values

\* the first row below row 1 whose column A is str(row_id); 0 when there is none
FindRow(all_vals, row_id) ==
    LET hit(i) == all_vals[i] # <<>> /\ all_vals[i][1] = FormatInt(row_id)
    IN  IF \E i \in 2..Len(all_vals) : hit(i)
        THEN CHOOSE i \in 2..Len(all_vals) : hit(i) /\ \A j \in 2..(i - 1) : ~hit(j)
        ELSE 0

\* ws.update("A<r>:<end_col><r>", [row_values]): the cells of the range are written,
\* cells to the right of it stay
UpdateRange(old, row_values, ncols) ==
    [i \in 1..Max(Len(old), ncols) |-> IF i <= ncols THEN row_values[i] ELSE old[i]]

\* a faulty variant: an upsert that always appends
WsUpsertAppends(values, headers, row_values, row_id) ==
    Append(WsEnsureHeaders(values, headers), row_values)

\* ws_upsert(ws, headers, row_values, row_id)
WsUpsert(values, headers, row_values, row_id) ==
    LET all_vals == WsEnsureHeaders(values, headers)
        target_row == FindRow(all_vals, row_id)
    IN  IF target_row # 0
        THEN [all_vals EXCEPT ![target_row] = UpdateRange(@, row_values, Len(headers))]
        ELSE Append(all_vals, row_values)

\* ws_delete_by_id(ws, row_id)
WsDeleteById(values, row_id) ==
    LET i == FindRow(values, row_id)
    IN  IF i # 0 THEN SubSeq(values, 1, i - 1) \o SubSeq(values, i + 1, Len(values))
        ELSE values

\* how a call of the mirror can end.  open_ws returns an error for the first four;
\* open_by_key, and the reads and writes of the worksheet, raise.
MirrorOutcomes ==
    {"ok", "missing_sheet_id", "missing_service_account_json",
     "invalid_service_account_json", "worksheet_not_found",
     "open_error", "read_error", "write_error"}

\* open_ws returned (None, err): the caller skips the mirror
OpenWsErrs ==
    {"missing_sheet_id", "missing_service_account_json",
     "invalid_service_account_json", "worksheet_not_found"}

\* the worksheet after open_ws + ws_upsert ending as m
MirrorUpsert(values, headers, row_values, row_id, m) ==
    IF m = "ok" THEN WsUpsert(values, headers, row_values, row_id)
    ELSE IF m = "write_error" THEN WsEnsureHeaders(values, headers)
    ELSE values

\* the worksheet after open_ws + ws_delete_by_id ending as m
MirrorDelete(values, row_id, m) ==
    IF m = "ok" THEN WsDeleteById(values, row_id) ELSE values

\* an exception left open_ws or the worksheet call
MirrorRaises(m) == m \in {"open_error", "read_error", "write_error"}

\* the response of a request that reached its mirror call, which ended as m: only
\* the /tasks POST catches what the call raises
AfterMirror(op, id, m, guarded) ==
    [op |-> op, status |-> IF MirrorRaises(m) /\ ~guarded THEN 500 ELSE 302,
     id |-> id, mirror |-> m]

\* the response of a request that ended before any mirror call
Early(op, status, id) == [op |-> op, status |-> status, id |-> id, mirror |-> "none"]

MaxSheetOps == 3

RecordHeaders == <<<<"id">>, <<"record_type">>, <<"record_number">>, <<"expiry_date">>>>

\* the keys and rows the worksheet calls are made with: column A of a row is its key,
\* as in every caller
SheetKeys == {1, 2}
SheetRows(k) ==
    {<<FormatInt(k), <<"a">>, <<"7", "0", "1">>, <<>>>>,
     <<FormatInt(k), <<"b">>, <<"7", "0", "2">>, isoformat(<<2025, 1, 1>>)>>}

\* worksheets in which no key occurs twice: empty, headers only, other headers, rows
\* under the headers, rows without headers, a row wider than the headers
InitialSheets ==
    LET r1 == <<<<"1">>, <<"old">>, <<"7", "0", "0">>, <<>>>>
        r2 == <<<<"2">>, <<"old">>, <<"7", "0", "9">>, <<>>>>
    IN  {<<>>,
         <<RecordHeaders>>,
         <<<<<<"key">>, <<"value">>>>>>,
         <<RecordHeaders, r1>>,
         <<RecordHeaders, r2, r1>>,
         <<r1, r2>>,
         <<RecordHeaders, Append(r1, <<"note">>), r2>>}

\* ws_upsert(ws, headers, row_values, row_id) on the worksheet records_es1
WsUpsertCall(row_values, row_id) ==
    /\ nreq < MaxSheetOps
    /\ nreq' = nreq + 1
    /\ sheets' = [sheets EXCEPT !["records_es1"] =
                    WsUpsert(@, RecordHeaders, row_values, row_id)]
    /\ resp' = [op |-> "sheet",
                calls |-> Append(resp.calls, [fn |-> "ws_upsert", row_id |-> row_id,
                                              row_values |-> row_values])]
    /\ UNCHANGED notSheets

\* ws_delete_by_id(ws, row_id) on the worksheet records_es1
WsDeleteCall(row_id) ==
    /\ nreq < MaxSheetOps
    /\ nreq' = nreq + 1
    /\ sheets' = [sheets EXCEPT !["records_es1"] = WsDeleteById(@, row_id)]
    /\ resp' = [op |-> "sheet",
                calls |-> Append(resp.calls, [fn |-> "ws_delete_by_id", row_id |-> row_id,
                                              row_values |-> <<>>])]
    /\ UNCHANGED notSheets

(***************************************************************************)
(* Financial commitments and tasks.                                        *)
(***************************************************************************)
MaxRequests == 4

\* f"{amount:.2f}" for an amount held in hundredths
Fmt2(amount) ==
    LET a == IF amount < 0 THEN 0 - amount ELSE amount
        body == FormatInt(a \div 100) \o <<".">> \o FormatInt((a % 100) \div 10)
                    \o FormatInt(a % 10)
    IN  IF amount < 0 THEN <<"-">> \o body ELSE body

\* _commitment_task_title(party, amount); the fixed Arabic words are written in Latin
CommitmentTaskTitle(party, amount) ==
    <<"iltizam mali - ">> \o party \o <<" - ">> \o Fmt2(amount) \o <<" SAR">>

Idle == [op |-> "idle"]

\* no save is under way
Workers == {1, 2}
InitTxn ==
    /\ inflight = [w \in Workers |-> Idle]
    /\ dblock = 0

InitTasks ==
    /\ commitments = {}
    /\ tasks = {}
    /\ commitSeq = 0
    /\ taskSeq = 0
    /\ pc = Idle

\* the forms of the commitments page and of the tasks page, as typed
CommitmentForms ==
    { [party |-> p, amount |-> a] :
        p \in {<<"X">>, <<" ">>},
        a \in {<<"1", "0", "0">>, <<"2", "5", "0", ".", "5">>} }
TaskForms == { [title |-> t, due_date |-> <<>>] : t \in {<<"call">>, <<" ">>} }

\* the ids a request can name: every id given out so far, and one never given out
CommitmentIds == 1..(commitSeq + 1)
TaskIds == 1..(taskSeq + 1)

\* SELECT ... FROM financial_commitments WHERE id=?   (the rows: none or one)
CommitmentRow(cs, cid) == {c \in cs : c.id = cid}

\* the rowid of an INSERT into a table that schema.sql defines (tasks, records_*,
\* employees): one above the highest id present, or, if the table is AUTOINCREMENT,
\* one above the highest ever given out
NewRowIds(ts, seq) ==
    LET top == IF ts = {} THEN 0 ELSE CHOOSE n \in {t.id : t \in ts} : \A t \in ts : t.id <= n
    IN  {top + 1, seq + 1}

\* UPDATE tasks SET title=? WHERE id=?
RenameTask(ts, tid, title) ==
    {IF t.id = tid THEN [t EXCEPT !.title = title] ELSE t : t \in ts}

\* a faulty variant: the DELETE removes nothing
DeleteNoTask(ts, tid) == ts

\* DELETE FROM tasks WHERE id=?
DeleteTask(ts, tid) == {t \in ts : t.id # tid}

\* a faulty variant: a linked commitment gets a new task all the same
AlwaysNewTask(c) == FALSE

\* if row["task_id"]: the commitment has a task to rename
HasTask(c) == c.task_id # 0

\* POST action=add, up to the commit of the INSERT
CommitmentAdd(f) ==
    LET party == Strip(f.party)
        amount == ToFloat(f.amount, 0)
    IN  /\ pc = Idle
        /\ nreq < MaxRequests
        /\ nreq' = nreq + 1
        /\ IF party # <<>>
           THEN /\ commitSeq' = commitSeq + 1
                /\ commitments' = commitments \cup
                     {[id |-> commitSeq + 1, party |-> party, amount |-> amount, task_id |-> 0]}
                /\ pc' = [op |-> "add", cid |-> commitSeq + 1]
                /\ resp' = resp
           ELSE /\ UNCHANGED <<commitSeq, commitments, pc>>
                /\ resp' = [op |-> "commitment_add", status |-> 302, cid |-> 0]
        /\ UNCHANGED <<tasks, taskSeq, sheets>>
        /\ UNCHANGED notTasks

\* POST action=update, up to the commit of the UPDATE
CommitmentUpdate(cid, f) ==
    LET party == Strip(f.party)
        amount == ToFloat(f.amount, 0)
    IN  /\ pc = Idle
        /\ nreq < MaxRequests
        /\ nreq' = nreq + 1
        /\ commitments' =
             {IF c.id = cid THEN [c EXCEPT !.party = party, !.amount = amount] ELSE c :
                c \in commitments}
        /\ pc' = [op |-> "update", cid |-> cid]
        /\ UNCHANGED <<commitSeq, tasks, taskSeq, sheets, resp>>
        /\ UNCHANGED notTasks

\* a faulty variant: the UPDATE has no WHERE: every commitment gets the link
LinkEveryCommitment(cs, cid, task_id) == {[d EXCEPT !.task_id = task_id] : d \in cs}

\* UPDATE financial_commitments SET task_id=? WHERE id=?
LinkTask(cs, cid, task_id) ==
    {IF d.id = cid THEN [d EXCEPT !.task_id = task_id] ELSE d : d \in cs}

\* create_or_update_commitment_task(db, commitment_id), and the redirect after it
CreateOrUpdateCommitmentTask ==
    /\ pc.op \in {"add", "update"}
    /\ LET row == CommitmentRow(commitments, pc.cid)
       IN  IF row = {}
           THEN UNCHANGED <<commitments, tasks, taskSeq>>
           ELSE LET c == CHOOSE c \in row : TRUE
                    title == CommitmentTaskTitle(c.party, c.amount)
                IN  IF HasTask(c)
                    THEN /\ tasks' = RenameTask(tasks, c.task_id, title)
                         /\ UNCHANGED <<commitments, taskSeq>>
                    ELSE \E task_id \in NewRowIds(tasks, taskSeq) :
                           /\ tasks' = tasks \cup
                                {[id |-> task_id, title |-> title, due_date |-> <<>>]}
                           /\ taskSeq' = Max(taskSeq, task_id)
                           /\ commitments' = LinkTask(commitments, c.id, task_id)
    /\ pc' = Idle
    /\ resp' = [op |-> "commitment_" \o pc.op, status |-> 302, cid |-> pc.cid]
    /\ UNCHANGED <<commitSeq, sheets, nreq>>
    /\ UNCHANGED <<notTasks, authVars, gate>>

\* POST action=delete: delete_commitment_task(db, cid), up to its commit
CommitmentDelete(cid) ==
    /\ pc = Idle
    /\ nreq < MaxRequests
    /\ nreq' = nreq + 1
    /\ LET row == CommitmentRow(commitments, cid)
       IN  IF row # {} /\ HasTask(CHOOSE c \in row : TRUE)
           THEN tasks' = DeleteTask(tasks, (CHOOSE c \in row : TRUE).task_id)
           ELSE tasks' = tasks
    /\ pc' = [op |-> "delete", cid |-> cid]
    /\ UNCHANGED <<commitments, commitSeq, taskSeq, sheets, resp>>
    /\ UNCHANGED notTasks

\* DELETE FROM financial_commitments WHERE id=?, its commit, and the redirect
DeleteCommitmentRow ==
    /\ pc.op = "delete"
    /\ commitments' = {c \in commitments : c.id # pc.cid}
    /\ pc' = Idle
    /\ resp' = [op |-> "commitment_delete", status |-> 302, cid |-> pc.cid]
    /\ UNCHANGED <<tasks, commitSeq, taskSeq, sheets, nreq>>
    /\ UNCHANGED <<notTasks, authVars, gate>>

TaskHeaders == <<<<"id">>, <<"title">>, <<"due_date">>, <<"created_at">>>>

\* POST /tasks: a task typed by hand; its mirror call sits in a try/except
TaskAdd(f, m) ==
    LET title == Strip(f.title)
        due_date == Strip(f.due_date)
    IN  /\ pc = Idle
        /\ nreq < MaxRequests
        /\ nreq' = nreq + 1
        /\ IF title # <<>>
           THEN \E new_id \in NewRowIds(tasks, taskSeq) :
                  /\ tasks' = tasks \cup
                       {[id |-> new_id, title |-> title, due_date |-> due_date]}
                  /\ taskSeq' = Max(taskSeq, new_id)
                  /\ sheets' = [sheets EXCEPT !["tasks_manual"] =
                       MirrorUpsert(@, TaskHeaders,
                          <<FormatInt(new_id), title, due_date, <<"now">>>>, new_id, m)]
                  /\ resp' = AfterMirror("task_add", new_id, m, TRUE)
           ELSE /\ UNCHANGED <<tasks, taskSeq, sheets>>
                /\ resp' = Early("task_add", 302, 0)
        /\ UNCHANGED <<commitments, commitSeq, pc>>
        /\ UNCHANGED notTasks

\* POST /tasks/<tid>/delete: any task at all; the mirror call is not guarded
TaskDelete(tid, m) ==
    /\ pc = Idle
    /\ nreq < MaxRequests
    /\ nreq' = nreq + 1
    /\ tasks' = DeleteTask(tasks, tid)
    /\ sheets' = [sheets EXCEPT !["tasks_manual"] = MirrorDelete(@, tid, m)]
    /\ resp' = AfterMirror("task_delete", tid, m, FALSE)
    /\ UNCHANGED <<commitments, commitSeq, taskSeq, pc>>
    /\ UNCHANGED notTasks

(***************************************************************************)
(* Records and employees.  The requests are those of a logged-in user who  *)
(* holds the page's permission.                                            *)
(***************************************************************************)
MaxMirrored == 2

RecordKinds == {"ES1", "ES2", "ES3"}

\* table_name(kind), which is also the name of the kind's worksheet
TableName(kind) ==
    CASE kind = "ES1" -> "records_es1"
      [] kind = "ES2" -> "records_es2"
      [] kind = "ES3" -> "records_es3"

\* SQL NULL, Python None
Null == <<"NULL">>
OrNone(s) == IF s = <<>> THEN Null ELSE s
OrEmpty(v) == IF v = Null THEN <<>> ELSE v

InitRegistry ==
    /\ records = [k \in RecordKinds |-> {}]
    /\ employees = {}
    /\ rowSeq = [t \in {"records_es1", "records_es2", "records_es3", "employees"} |-> 0]

RecordForms ==
    { [record_type |-> <<"a">>, record_number |-> n, expiry_date |-> e] :
        n \in {<<"7", "0", "1">>, <<" ">>}, e \in {<<>>, isoformat(<<2025, 1, 1>>)} }

\* [id, record_type, record_number, expiry_date or ""], as the worksheet holds it
RecordSheetRow(id, f) ==
    <<FormatInt(id), Strip(f.record_type), Strip(f.record_number), Strip(f.expiry_date)>>

\* the ids a request can name in a table: those given out, and one never given out
RowIds(t) == 1..(rowSeq[t] + 1)

\* POST /records/<kind>/new
RecordNew(kind, f, m) ==
    LET t == TableName(kind)
    IN  /\ nreq < MaxMirrored
        /\ nreq' = nreq + 1
        /\ IF Strip(f.record_number) = <<>>
           THEN /\ UNCHANGED <<records, rowSeq, sheets>>
                /\ resp' = Early("record_new", 200, 0)
           ELSE \E new_id \in NewRowIds(records[kind], rowSeq[t]) :
                  /\ records' = [records EXCEPT ![kind] = @ \cup
                       {[id |-> new_id, record_type |-> Strip(f.record_type),
                         record_number |-> Strip(f.record_number),
                         expiry_date |-> OrNone(Strip(f.expiry_date))]}]
                  /\ rowSeq' = [rowSeq EXCEPT ![t] = Max(@, new_id)]
                  /\ sheets' = [sheets EXCEPT ![t] =
                       MirrorUpsert(@, RecordHeaders, RecordSheetRow(new_id, f), new_id, m)]
                  /\ resp' = AfterMirror("record_new", new_id, m, FALSE)
        /\ employees' = employees
        /\ UNCHANGED notRegistry

\* POST /records/<kind>/<rid>/edit
RecordEdit(kind, rid, f, m) ==
    LET t == TableName(kind)
    IN  /\ nreq < MaxMirrored
        /\ nreq' = nreq + 1
        /\ IF \A r \in records[kind] : r.id # rid
           THEN /\ UNCHANGED <<records, sheets>>
                /\ resp' = Early("record_edit", 302, rid)
           ELSE IF Strip(f.record_number) = <<>>
           THEN /\ UNCHANGED <<records, sheets>>
                /\ resp' = Early("record_edit", 200, rid)
           ELSE /\ records' = [records EXCEPT ![kind] =
                     {IF r.id = rid
                      THEN [id |-> rid, record_type |-> Strip(f.record_type),
                            record_number |-> Strip(f.record_number),
                            expiry_date |-> OrNone(Strip(f.expiry_date))]
                      ELSE r : r \in @}]
                /\ sheets' = [sheets EXCEPT ![t] =
                     MirrorUpsert(@, RecordHeaders, RecordSheetRow(rid, f), rid, m)]
                /\ resp' = AfterMirror("record_edit", rid, m, FALSE)
        /\ UNCHANGED <<employees, rowSeq>>
        /\ UNCHANGED notRegistry

\* POST /records/<kind>/<rid>/delete
RecordDelete(kind, rid, m) ==
    /\ nreq < MaxMirrored
    /\ nreq' = nreq + 1
    /\ records' = [records EXCEPT ![kind] = {r \in @ : r.id # rid}]
    /\ sheets' = [sheets EXCEPT ![TableName(kind)] = MirrorDelete(@, rid, m)]
    /\ resp' = AfterMirror("record_delete", rid, m, FALSE)
    /\ UNCHANGED <<employees, rowSeq>>
    /\ UNCHANGED notRegistry

\* the columns of employees after id, in the order of the worksheet
EmployeeFields ==
    <<"name_ar", "name_en", "nationality", "mobile", "passport_no", "passport_expiry",
      "iqama_no", "iqama_expiry", "insurance_name", "insurance_expiry",
      "basic_salary", "commission", "bank_account">>

\* the columns stored as NULL when left blank
NullableFields ==
    {"passport_expiry", "iqama_expiry", "insurance_expiry", "basic_salary", "commission"}

EmployeeHeaders == <<<<"id">>>> \o [i \in 1..Len(EmployeeFields) |-> <<EmployeeFields[i]>>]

EmployeeForms ==
    { [k \in {EmployeeFields[i] : i \in 1..Len(EmployeeFields)} |->
          CASE k = "name_ar" -> n
            [] k = "passport_expiry" -> e
            [] k = "basic_salary" -> <<"3", "0", "0", "0">>
            [] OTHER -> <<>>] :
        n \in {<<"Ali">>, <<" ">>}, e \in {<<>>, <<" ">> \o isoformat(<<2025, 1, 1>>)} }

\* payload = {...}: every field stripped, the nullable ones None when blank
Payload(f) ==
    [k \in DOMAIN f |-> IF k \in NullableFields THEN OrNone(Strip(f[k])) ELSE Strip(f[k])]

\* [id, payload[...] or "", ...], as the worksheet holds it
EmployeeSheetRow(id, payload) ==
    <<FormatInt(id)>> \o [i \in 1..Len(EmployeeFields) |-> OrEmpty(payload[EmployeeFields[i]])]

\* POST /employees/new
EmployeeNew(f, m) ==
    LET payload == Payload(f)
    IN  /\ nreq < MaxMirrored
        /\ nreq' = nreq + 1
        /\ IF payload.name_ar = <<>>
           THEN /\ UNCHANGED <<employees, rowSeq, sheets>>
                /\ resp' = Early("employee_new", 200, 0)
           ELSE \E new_id \in NewRowIds(employees, rowSeq.employees) :
                  /\ employees' = employees \cup {[id |-> new_id, data |-> payload]}
                  /\ rowSeq' = [rowSeq EXCEPT !.employees = Max(@, new_id)]
                  /\ sheets' = [sheets EXCEPT !.employees =
                       MirrorUpsert(@, EmployeeHeaders, EmployeeSheetRow(new_id, payload),
                                    new_id, m)]
                  /\ resp' = AfterMirror("employee_new", new_id, m, FALSE)
        /\ records' = records
        /\ UNCHANGED notRegistry

\* POST /employees/<eid>/edit
EmployeeEdit(eid, f, m) ==
    LET payload == Payload(f)
    IN  /\ nreq < MaxMirrored
        /\ nreq' = nreq + 1
        /\ IF \A r \in employees : r.id # eid
           THEN /\ UNCHANGED <<employees, sheets>>
                /\ resp' = Early("employee_edit", 302, eid)
           ELSE IF payload.name_ar = <<>>
           THEN /\ UNCHANGED <<employees, sheets>>
                /\ resp' = Early("employee_edit", 200, eid)
           ELSE /\ employees' =
                     {IF r.id = eid THEN [id |-> eid, data |-> payload] ELSE r : r \in employees}
                /\ sheets' = [sheets EXCEPT !.employees =
                     MirrorUpsert(@, EmployeeHeaders, EmployeeSheetRow(eid, payload), eid, m)]
                /\ resp' = AfterMirror("employee_edit", eid, m, FALSE)
        /\ UNCHANGED <<records, rowSeq>>
        /\ UNCHANGED notRegistry

\* POST /employees/<eid>/delete
EmployeeDelete(eid, m) ==
    /\ nreq < MaxMirrored
    /\ nreq' = nreq + 1
    /\ IF \A r \in employees : r.id # eid
       THEN /\ UNCHANGED <<employees, sheets>>
            /\ resp' = Early("employee_delete", 302, eid)
       ELSE /\ employees' = {r \in employees : r.id # eid}
            /\ sheets' = [sheets EXCEPT !.employees = MirrorDelete(@, eid, m)]
            /\ resp' = AfterMirror("employee_delete", eid, m, FALSE)
    /\ UNCHANGED <<records, rowSeq>>
    /\ UNCHANGED notRegistry

\* the /tasks POST and the task delete, counted with the mirrored requests
MirroredTaskAdd(f, m) == nreq < MaxMirrored /\ TaskAdd(f, m)
MirroredTaskDelete(tid, m) == nreq < MaxMirrored /\ TaskDelete(tid, m)

(***************************************************************************)
(* The tasks page: the manual tasks and the expiry alerts.                 *)
(***************************************************************************)
DAYS_WINDOW == 45

\* a faulty variant: what has already expired is left out
InWindowNotExpired(dl) == 0 <= dl /\ dl <= DAYS_WINDOW

\* if dl > DAYS_WINDOW: continue
InWindow(dl) == dl <= DAYS_WINDOW

\* _safe_fromiso: date.fromisoformat((s or "").strip()), None where it raises
safe_fromiso(v) == IF v = Null THEN NoDate ELSE fromisoformat(Strip(v))

\* the rows of a table in the order an unordered SELECT returns them: by rowid
RECURSIVE ById(_)
ById(rows) ==
    IF rows = {} THEN <<>>
    ELSE LET r == CHOOSE r \in rows : \A q \in rows : r.id <= q.id
         IN  <<r>> \o ById(rows \ {r})

\* ORDER BY id DESC
RECURSIVE Reversed(_)
Reversed(q) == IF q = <<>> THEN <<>> ELSE Append(Reversed(Tail(q)), Head(q))

\* the fields the alert loops look at, in their order, each as <<source, name,
\* number, expiry text>>: the rows of records_es1, es2, es3 whose expiry_date is
\* neither NULL nor '', then three fields of every employee
RecordFields(rs, kind) ==
    LET q == ById({r \in rs : r.expiry_date # Null /\ r.expiry_date # <<>>})
    IN  [i \in 1..Len(q) |-> <<kind, q[i].record_type, q[i].record_number, q[i].expiry_date>>]

RECURSIVE EmployeeFieldsOf(_)
EmployeeFieldsOf(q) ==
    IF q = <<>> THEN <<>>
    ELSE LET e == Head(q).data
             name == Strip(e.name_ar)
         IN  << <<"employees", <<"passport expiry ">> \o name, <<"-">>, e.passport_expiry>>,
                <<"employees", <<"iqama expiry ">> \o name, <<"-">>, e.iqama_expiry>>,
                <<"employees", <<"insurance expiry ">> \o name, <<"-">>, e.insurance_expiry>> >>
             \o EmployeeFieldsOf(Tail(q))

\* alerts.append({...}) for every field that parses as a date inside the window
RECURSIVE AlertsOf(_, _)
AlertsOf(fields, today) ==
    IF fields = <<>> THEN <<>>
    ELSE LET f == Head(fields)
             d == safe_fromiso(f[4])
         IN  (IF d # NoDate /\ InWindow(days_left(d, today))
              THEN <<[source |-> f[1], name |-> f[2], number |-> f[3],
                      expiry |-> isoformat(d), days_left |-> days_left(d, today),
                      color |-> status_color(d, today)]>>
              ELSE <<>>)
             \o AlertsOf(Tail(fields), today)

\* the order of str on the characters of an ISO date
CharCode(c) == IF c = "-" THEN 45 ELSE 48 + DigitValue(c)
RECURSIVE TextLess(_, _)
TextLess(a, b) ==
    IF b = <<>> THEN FALSE
    ELSE IF a = <<>> THEN TRUE
    ELSE IF Head(a) # Head(b) THEN CharCode(Head(a)) < CharCode(Head(b))
    ELSE TextLess(Tail(a), Tail(b))

\* a faulty variant: the list is left in the order the loops built it
Unsorted(q) == q

\* alerts.sort(key=lambda x: x["expiry"] or "9999-12-31"): a stable sort
RECURSIVE InsertByExpiry(_, _)
InsertByExpiry(sorted, x) ==
    IF sorted = <<>> THEN <<x>>
    ELSE IF TextLess(x.expiry, Head(sorted).expiry) THEN <<x>> \o sorted
    ELSE <<Head(sorted)>> \o InsertByExpiry(Tail(sorted), x)
RECURSIVE SortByExpiry(_)
SortByExpiry(q) ==
    IF q = <<>> THEN <<>>
    ELSE InsertByExpiry(SortByExpiry(SubSeq(q, 1, Len(q) - 1)), q[Len(q)])

Alerts(recs, emps, today) ==
    SortByExpiry(AlertsOf(RecordFields(recs["ES1"], "ES1") \o RecordFields(recs["ES2"], "ES2")
                          \o RecordFields(recs["ES3"], "ES3")
                          \o EmployeeFieldsOf(ById(emps)), today))

\* GET /tasks, on the day today
TasksPage(today) ==
    /\ pc = Idle
    /\ resp' = [op |-> "tasks_page", status |-> 200, today |-> today,
                tasks_list |-> Reversed(ById(tasks)),
                alerts |-> Alerts(records, employees, today)]
    /\ UNCHANGED <<taskVars, sheets, nreq>>
    /\ UNCHANGED notTasks

\* the expiry texts of the stored rows the page is shown: days around the window, a
\* day that is not in the calendar, a text that is no date
ExpiryTexts ==
    {isoformat(<<2025, 2, 15>>), isoformat(<<2025, 2, 16>>), isoformat(<<2024, 12, 31>>),
     isoformat(<<2025, 1, 1>>), YMD(2025, 2, 30), <<"x">>}

RecordRow(id, e) ==
    [id |-> id, record_type |-> <<"a">>, record_number |-> <<"7">>, expiry_date |-> e]

EmployeeRow(id, p, q, i) ==
    [id |-> id,
     data |-> Payload([k \in {EmployeeFields[j] : j \in 1..Len(EmployeeFields)} |->
                          CASE k = "name_ar" -> <<"Ali">>
                            [] k = "passport_expiry" -> OrEmpty(p)
                            [] k = "iqama_expiry" -> OrEmpty(q)
                            [] k = "insurance_expiry" -> OrEmpty(i)
                            [] OTHER -> <<>>])]

\* stores as record_new and employee_new leave them
AlertStores ==
    { [records |-> [k \in RecordKinds |-> CASE k = "ES1" -> r1 [] k = "ES2" -> r2
                                             [] OTHER -> {}],
       employees |-> em] :
        r1 \in {{}} \cup {{RecordRow(1, e)} : e \in ExpiryTexts \cup {Null}}
                    \cup {{RecordRow(1, e[1]), RecordRow(2, e[2])} :
                             e \in (ExpiryTexts \cup {Null}) \X (ExpiryTexts \cup {Null})},
        r2 \in {{}, {RecordRow(1, isoformat(<<2025, 2, 15>>))}},
        em \in {{}} \cup {{EmployeeRow(1, p, q, i)} :
                             p \in ExpiryTexts \cup {Null},
                             q \in {Null, isoformat(<<2025, 2, 15>>), isoformat(<<2024, 12, 31>>)},
                             i \in {Null, isoformat(<<2025, 2, 16>>)}} }

(***************************************************************************)
(* The mirrored requests, statement by statement: the statements up to     *)
(* db.commit(), then the worksheet call.                                   *)
(***************************************************************************)
MaxStepRequests == 2

\* what a request holds between its commit and its worksheet call
Pending(op, tab, fn, headers, row, id, guarded) ==
    [op |-> op, at |-> "committed", tab |-> tab, fn |-> fn, headers |-> headers,
     row |-> row, id |-> id, guarded |-> guarded]

\* a request arrives at worker w while no other request is under way
Arrives(w) ==
    /\ nreq < MaxStepRequests
    /\ nreq' = nreq + 1
    /\ \A v \in Workers : inflight[v] = Idle
    /\ dblock' = dblock

\* POST /records/<kind>/new, up to db.commit()
RecordNewCommit(w, kind, f) ==
    LET t == TableName(kind)
    IN  /\ Arrives(w)
        /\ IF Strip(f.record_number) = <<>>
           THEN /\ UNCHANGED <<records, rowSeq, inflight>>
                /\ resp' = Early("record_new", 200, 0)
           ELSE \E new_id \in NewRowIds(records[kind], rowSeq[t]) :
                  /\ records' = Commit(records, [records EXCEPT ![kind] = @ \cup
                       {[id |-> new_id, record_type |-> Strip(f.record_type),
                         record_number |-> Strip(f.record_number),
                         expiry_date |-> OrNone(Strip(f.expiry_date))]}])
                  /\ rowSeq' = [rowSeq EXCEPT ![t] = Max(@, new_id)]
                  /\ inflight' = [inflight EXCEPT ![w] =
                       Pending("record_new", t, "ws_upsert", RecordHeaders,
                               RecordSheetRow(new_id, f), new_id, FALSE)]
                  /\ resp' = resp
        /\ UNCHANGED <<ledgerVars, commissionVars, calc, taskVars, employees, sheets>>

\* POST /records/<kind>/<rid>/edit, up to db.commit()
RecordEditCommit(w, kind, rid, f) ==
    LET t == TableName(kind)
    IN  /\ Arrives(w)
        /\ IF \A r \in records[kind] : r.id # rid
           THEN /\ UNCHANGED <<records, inflight>>
                /\ resp' = Early("record_edit", 302, rid)
           ELSE IF Strip(f.record_number) = <<>>
           THEN /\ UNCHANGED <<records, inflight>>
                /\ resp' = Early("record_edit", 200, rid)
           ELSE /\ records' = Commit(records, [records EXCEPT ![kind] =
                     {IF r.id = rid
                      THEN [id |-> rid, record_type |-> Strip(f.record_type),
                            record_number |-> Strip(f.record_number),
                            expiry_date |-> OrNone(Strip(f.expiry_date))]
                      ELSE r : r \in @}])
                /\ inflight' = [inflight EXCEPT ![w] =
                     Pending("record_edit", t, "ws_upsert", RecordHeaders,
                             RecordSheetRow(rid, f), rid, FALSE)]
                /\ resp' = resp
        /\ UNCHANGED <<ledgerVars, commissionVars, calc, taskVars, employees, rowSeq, sheets>>

\* POST /records/<kind>/<rid>/delete, up to db.commit()
RecordDeleteCommit(w, kind, rid) ==
    /\ Arrives(w)
    /\ records' = Commit(records, [records EXCEPT ![kind] = {r \in @ : r.id # rid}])
    /\ inflight' = [inflight EXCEPT ![w] =
         Pending("record_delete", TableName(kind), "ws_delete_by_id", <<>>, <<>>, rid, FALSE)]
    /\ resp' = resp
    /\ UNCHANGED <<ledgerVars, commissionVars, calc, taskVars, employees, rowSeq, sheets>>

\* POST /employees/new, up to db.commit()
EmployeeNewCommit(w, f) ==
    LET payload == Payload(f)
    IN  /\ Arrives(w)
        /\ IF payload.name_ar = <<>>
           THEN /\ UNCHANGED <<employees, rowSeq, inflight>>
                /\ resp' = Early("employee_new", 200, 0)
           ELSE \E new_id \in NewRowIds(employees, rowSeq.employees) :
                  /\ employees' =
                       Commit(employees, employees \cup {[id |-> new_id, data |-> payload]})
                  /\ rowSeq' = [rowSeq EXCEPT !.employees = Max(@, new_id)]
                  /\ inflight' = [inflight EXCEPT ![w] =
                       Pending("employee_new", "employees", "ws_upsert", EmployeeHeaders,
                               EmployeeSheetRow(new_id, payload), new_id, FALSE)]
                  /\ resp' = resp
        /\ UNCHANGED <<ledgerVars, commissionVars, calc, taskVars, records, sheets>>

\* POST /employees/<eid>/edit, up to db.commit()
EmployeeEditCommit(w, eid, f) ==
    LET payload == Payload(f)
    IN  /\ Arrives(w)
        /\ IF \A r \in employees : r.id # eid
           THEN /\ UNCHANGED <<employees, inflight>>
                /\ resp' = Early("employee_edit", 302, eid)
           ELSE IF payload.name_ar = <<>>
           THEN /\ UNCHANGED <<employees, inflight>>
                /\ resp' = Early("employee_edit", 200, eid)
           ELSE /\ employees' = Commit(employees,
                     {IF r.id = eid THEN [id |-> eid, data |-> payload] ELSE r :
                        r \in employees})
                /\ inflight' = [inflight EXCEPT ![w] =
                     Pending("employee_edit", "employees", "ws_upsert", EmployeeHeaders,
                             EmployeeSheetRow(eid, payload), eid, FALSE)]
                /\ resp' = resp
        /\ UNCHANGED <<ledgerVars, commissionVars, calc, taskVars, records, rowSeq, sheets>>

\* POST /employees/<eid>/delete, up to db.commit()
EmployeeDeleteCommit(w, eid) ==
    /\ Arrives(w)
    /\ IF \A r \in employees : r.id # eid
       THEN /\ UNCHANGED <<employees, inflight>>
            /\ resp' = Early("employee_delete", 302, eid)
       ELSE /\ employees' = Commit(employees, {r \in employees : r.id # eid})
            /\ inflight' = [inflight EXCEPT ![w] =
                 Pending("employee_delete", "employees", "ws_delete_by_id", <<>>, <<>>,
                         eid, FALSE)]
            /\ resp' = resp
    /\ UNCHANGED <<ledgerVars, commissionVars, calc, taskVars, records, rowSeq, sheets>>

\* POST /tasks, up to db.commit()
TaskAddCommit(w, f) ==
    LET title == Strip(f.title)
        due_date == Strip(f.due_date)
    IN  /\ Arrives(w)
        /\ pc = Idle
        /\ IF title # <<>>
           THEN \E new_id \in NewRowIds(tasks, taskSeq) :
                  /\ tasks' = Commit(tasks, tasks \cup
                       {[id |-> new_id, title |-> title, due_date |-> due_date]})
                  /\ taskSeq' = Max(taskSeq, new_id)
                  /\ inflight' = [inflight EXCEPT ![w] =
                       Pending("task_add", "tasks_manual", "ws_upsert", TaskHeaders,
                               <<FormatInt(new_id), title, due_date, <<"now">>>>,
                               new_id, TRUE)]
                  /\ resp' = resp
           ELSE /\ UNCHANGED <<tasks, taskSeq, inflight>>
                /\ resp' = Early("task_add", 302, 0)
        /\ UNCHANGED <<ledgerVars, commissionVars, calc, commitments, commitSeq, pc,
                       registryVars, sheets>>

\* POST /tasks/<tid>/delete, up to db.commit()
TaskDeleteCommit(w, tid) ==
    /\ Arrives(w)
    /\ pc = Idle
    /\ tasks' = Commit(tasks, DeleteTask(tasks, tid))
    /\ inflight' = [inflight EXCEPT ![w] =
         Pending("task_delete", "tasks_manual", "ws_delete_by_id", <<>>, <<>>, tid, FALSE)]
    /\ resp' = resp
    /\ UNCHANGED <<ledgerVars, commissionVars, calc, commitments, commitSeq, taskSeq, pc,
                   registryVars, sheets>>

\* open_ws and the worksheet call of the request worker w holds, ending as m, and the
\* response of the request
MirrorCall(w, m) ==
    /\ inflight[w].op # "idle"
    /\ inflight[w].at = "committed"
    /\ sheets' = [sheets EXCEPT ![inflight[w].tab] =
         IF inflight[w].fn = "ws_upsert"
         THEN MirrorUpsert(@, inflight[w].headers, inflight[w].row, inflight[w].id, m)
         ELSE MirrorDelete(@, inflight[w].id, m)]
    /\ resp' = AfterMirror(inflight[w].op, inflight[w].id, m, inflight[w].guarded)
    /\ inflight' = [inflight EXCEPT ![w] = Idle]
    /\ UNCHANGED <<ledgerVars, commissionVars, calc, taskVars, registryVars, authVars,
                   dblock, gate, nreq>>

(***************************************************************************)
(* Concurrent saves: each request has its own connection, and SQLite lets  *)
(* one transaction write at a time.                                        *)
(***************************************************************************)
MaxRaceSaves == 3

\* the write lock is free for worker w (it is taken by the first INSERT, UPDATE or
\* DELETE of a connection and held until its commit or its close)
CanWrite(w) == dblock = 0 \/ dblock = w

\* sqlite3.OperationalError: database is locked; the request ends in a 500
Locked(w, op) ==
    /\ inflight[w].op = op
    /\ inflight[w].at = "parsed"
    /\ ~CanWrite(w)
    /\ inflight' = [inflight EXCEPT ![w] = Idle]
    /\ resp' = [op |-> op, status |-> 500, error |-> "locked"]
    /\ UNCHANGED <<ledgerVars, commissionVars, calc, taskVars, registryVars, sheets,
                   authVars, dblock, gate, nreq>>

\* POST /accounting/<kind>/daily arrives at worker w: the form is read
DailyBegin(w, kind, day, hf, f) ==
    /\ nreq < MaxRaceSaves
    /\ inflight[w] = Idle
    /\ inflight' = [inflight EXCEPT ![w] =
                      [op |-> "daily_save", at |-> "parsed", kind |-> kind, day |-> day,
                       header |-> hf, lines |-> f]]
    /\ nreq' = nreq + 1
    /\ resp' = resp
    /\ UNCHANGED <<ledgerVars, commissionVars, calc, taskVars, registryVars, sheets, dblock>>

\* the statements of the save run in worker w's transaction, from INSERT OR IGNORE on
DailyWrite(w) ==
    /\ inflight[w].op = "daily_save"
    /\ inflight[w].at = "parsed"
    /\ CanWrite(w)
    /\ dblock' = w
    /\ inflight' = [inflight EXCEPT ![w] =
                      [op |-> "daily_save", at |-> "written", kind |-> @.kind, day |-> @.day,
                       header |-> @.header, lines |-> @.lines,
                       txn |-> TxnAt(daily, @.kind, @.day, @.header, @.lines, "petty")]]
    /\ UNCHANGED <<ledgerVars, commissionVars, calc, taskVars, registryVars, sheets,
                   authVars, gate, nreq, resp>>

\* db.commit() of worker w, and the redirect to the day
DailyCommit(w) ==
    /\ inflight[w].op = "daily_save"
    /\ inflight[w].at = "written"
    /\ daily' = Commit(daily, inflight[w].txn)
    /\ dblock' = 0
    /\ inflight' = [inflight EXCEPT ![w] = Idle]
    /\ resp' = [op |-> "daily_save", status |-> 302, kind |-> inflight[w].kind,
                day_date |-> inflight[w].day, header |-> inflight[w].header,
                lines |-> inflight[w].lines]
    /\ UNCHANGED <<commissionVars, calc, taskVars, registryVars, sheets, authVars, gate, nreq>>

\* a statement of worker w raised: the connection is closed without commit
DailyAbort(w) ==
    /\ inflight[w].op = "daily_save"
    /\ inflight[w].at = "written"
    /\ daily' = Rollback(daily, inflight[w].txn)
    /\ dblock' = 0
    /\ inflight' = [inflight EXCEPT ![w] = Idle]
    /\ resp' = [op |-> "daily_save", status |-> 500, kind |-> inflight[w].kind,
                day_date |-> inflight[w].day]
    /\ UNCHANGED <<commissionVars, calc, taskVars, registryVars, sheets, authVars, gate, nreq>>

\* a faulty variant: the table has no UNIQUE(month)
NoUniqueMonth(rows, month) == TRUE

\* month TEXT NOT NULL UNIQUE: a row for the month can be inserted
UniqueMonth(rows, month) == MonthRow(rows, month) = 0

\* POST (a month and its sales) arrives at worker w: the form is validated, and the
\* settings and the row of the month are read
CommissionBegin(w, f) ==
    LET month == Strip(f.month)
        sales_raw == Strip(f.sales)
    IN  /\ nreq < MaxRaceSaves
        /\ inflight[w] = Idle
        /\ nreq' = nreq + 1
        /\ IF ~CanWrite(w)
           THEN \* ensure_monthly_commission_schema writes: database is locked
                /\ inflight' = inflight
                /\ resp' = [op |-> "save_commission", status |-> 500, error |-> "locked"]
           ELSE IF month = <<>> \/ ~IsFloat(sales_raw, MoneyPlaces)
           THEN /\ inflight' = inflight
                /\ resp' = [op |-> "save_commission", status |-> 302, flash |-> "warning",
                            month |-> month]
           ELSE /\ inflight' = [inflight EXCEPT ![w] =
                      [op |-> "save_commission", at |-> "parsed",
                       row |-> CommissionRow(month, FloatValue(sales_raw, MoneyPlaces),
                                             settings),
                       existing |-> MonthRow(commissions, month)]]
                /\ resp' = resp
        /\ UNCHANGED <<ledgerVars, commissionVars, calc, taskVars, registryVars, sheets,
                       dblock>>

\* the UPDATE (a row was found) or the INSERT (none was) of worker w
CommissionWrite(w) ==
    /\ inflight[w].op = "save_commission"
    /\ inflight[w].at = "parsed"
    /\ CanWrite(w)
    /\ LET row == inflight[w].row
           i == MonthRow(commissions, row.month)
       IN  IF inflight[w].existing # 0
           THEN /\ inflight' = [inflight EXCEPT ![w] =
                      [op |-> "save_commission", at |-> "written", row |-> row,
                       existing |-> @.existing,
                       txn |-> IF i # 0 THEN [commissions EXCEPT ![i] = row]
                               ELSE commissions]]
                /\ dblock' = w
                /\ resp' = resp
           ELSE IF UniqueMonth(commissions, row.month)
           THEN /\ inflight' = [inflight EXCEPT ![w] =
                      [op |-> "save_commission", at |-> "written", row |-> row,
                       existing |-> @.existing, txn |-> Append(commissions, row)]]
                /\ dblock' = w
                /\ resp' = resp
           ELSE \* sqlite3.IntegrityError is not caught: nothing is written
                /\ inflight' = [inflight EXCEPT ![w] = Idle]
                /\ dblock' = dblock
                /\ resp' = [op |-> "save_commission", status |-> 500,
                            error |-> "integrity", month |-> row.month]
    /\ UNCHANGED <<ledgerVars, commissionVars, calc, taskVars, registryVars, sheets,
                   authVars, gate, nreq>>

\* db.commit() of worker w, and the redirect to the page
CommissionCommit(w) ==
    /\ inflight[w].op = "save_commission"
    /\ inflight[w].at = "written"
    /\ commissions' = Commit(commissions, inflight[w].txn)
    /\ dblock' = 0
    /\ inflight' = [inflight EXCEPT ![w] = Idle]
    /\ resp' = [op |-> "save_commission", status |-> 302, flash |-> "success",
                month |-> inflight[w].row.month]
    /\ UNCHANGED <<ledgerVars, settings, calc, taskVars, registryVars, sheets, authVars,
                   gate, nreq>>

(***************************************************************************)
(* Accounts, sessions and the permission gate.                             *)
(***************************************************************************)
MASTER_USERNAME == <<"adm-es">>

\* os.environ.get("MASTER_PASS", "1234")
default_pass == <<"1234">>

PERM_KEYS ==
    {"home", "accounting_home", "accounting_es1", "accounting_es2", "accounting_es3",
     "monthly_commission", "financial_commitments", "records_home", "records_es1",
     "records_es2", "records_es3", "employees", "tasks", "permissions"}

\* werkzeug's pair: a hash verifies exactly the password it was made from
generate_password_hash(p) == <<"hash">> \o p
check_password_hash(h, p) == h = generate_password_hash(p)

\* the browsers that talk to the application
Sessions == {"s1", "s2"}

\* session.clear(): every session.get(..) is None
NoSession == [logged_in |-> FALSE, user_id |-> 0, username |-> <<>>, perms |-> {}]

\* the rows of one user, every key of PERM_KEYS, allowed for the keys of held
PermissionRows(uid, held) ==
    {[user_id |-> uid, perm_key |-> k, allowed |-> IF k \in held THEN 1 ELSE 0] :
        k \in PERM_KEYS}

\* for k in PERM_KEYS: INSERT INTO permissions .. ON CONFLICT(user_id, perm_key) DO UPDATE
UpsertPermissions(ps, uid, held) ==
    {r \in ps : r.user_id # uid} \cup PermissionRows(uid, held)

\* the keys load_user_perms maps to True: those with a stored row whose allowed is truthy
load_user_perms(ps, user_id) ==
    {k \in PERM_KEYS :
        \E r \in ps : r.user_id = user_id /\ r.perm_key = k /\ r.allowed # 0}

\* the three tables the accounts live in, as one value
Accounts == [users |-> users, permissions |-> permissions, userSeq |-> userSeq]

SetAccounts(db) ==
    /\ users' = db.users
    /\ permissions' = db.permissions
    /\ userSeq' = db.userSeq

\* ensure_master_user; new_id is the rowid the INSERT INTO users would get
ensure_master_user(db, new_id) ==
    LET row == {u \in db.users : u.username = MASTER_USERNAME}
        uid == IF row # {} THEN (CHOOSE u \in row : TRUE).id ELSE new_id
        us == IF row # {} THEN db.users
              ELSE db.users \cup
                   {[id |-> new_id, username |-> MASTER_USERNAME,
                     password_hash |-> generate_password_hash(default_pass),
                     is_admin |-> 1]}
    IN  [users |-> us,
         permissions |-> UpsertPermissions(db.permissions, uid, PERM_KEYS),
         userSeq |-> Max(db.userSeq, uid)]

\* the accounts as _ensure_bootstrap leaves them, before the view of any request runs
Booted == {ensure_master_user(Accounts, n) : n \in NewRowIds(users, userSeq)}

\* @app.before_request of a request whose view leaves the accounts alone
Bootstrap ==
    IF dblock = 0 THEN \E db \in Booted : SetAccounts(db)
    ELSE \* database is locked: the error is swallowed
         UNCHANGED accountVars

\* the accounts after the first request ever: the master, holding every key
BootedAccounts == ensure_master_user([users |-> {}, permissions |-> {}, userSeq |-> 0], 1)

\* a faulty variant: being logged in is enough
LoggedInIsEnough(se, perm_key) == IF ~se.logged_in THEN "login" ELSE "handler"

\* what a gate decides: "login" (redirect to the login page), "forbidden" (the
\* no-permission page, 403) or "handler"
permission_required(se, perm_key) ==
    IF ~se.logged_in THEN "login"
    ELSE IF perm_key \notin se.perms THEN "forbidden"
    ELSE "handler"

\* a faulty variant: the master's name is enough
AdminByNameOnly(se) ==
    IF ~se.logged_in THEN "login"
    ELSE IF se.username # MASTER_USERNAME THEN "forbidden"
    ELSE "handler"

admin_required(se) ==
    IF ~se.logged_in THEN "login"
    ELSE IF se.username # MASTER_USERNAME THEN "forbidden"
    ELSE IF "permissions" \notin se.perms THEN "forbidden"
    ELSE "handler"

\* f"accounting_{kind.lower()}" and f"records_{kind.lower()}"
AccountingKey(kind) ==
    CASE kind = "ES1" -> "accounting_es1" [] kind = "ES2" -> "accounting_es2"
      [] kind = "ES3" -> "accounting_es3"
RecordsKey(kind) ==
    CASE kind = "ES1" -> "records_es1" [] kind = "ES2" -> "records_es2"
      [] kind = "ES3" -> "records_es3"

\* the response of a request that its gate stopped
Denied(op, s, v) ==
    [op |-> op, status |-> IF v = "login" THEN 302 ELSE 403, session |-> s, gate |-> v]

\* the response of a request of the login, logout or permissions page
Answer(op, status, s, flash) ==
    [op |-> op, status |-> status, session |-> s, gate |-> "handler", flash |-> flash]

\* a request of browser s to a route gated by perm_key, whose handler is the action H:
\* the bootstrap, then the gate, then the handler if the gate lets the request through
Gated(s, perm_key, op, H) ==
    /\ pc = Idle
    /\ Bootstrap
    /\ sessions' = sessions
    /\ gate' = [session |-> s, key |-> perm_key,
                verdict |-> permission_required(sessions[s], perm_key)]
    /\ IF permission_required(sessions[s], perm_key) = "handler"
       THEN H
       ELSE /\ resp' = Denied(op, s, permission_required(sessions[s], perm_key))
            /\ UNCHANGED <<ledgerVars, commissionVars, calc, taskVars, registryVars,
                           sheets, txnVars, nreq>>

\* most requests of a run of the login page and the permissions page
MaxAccountRequests == 4

\* the forms of the login page and of the permissions page, as typed
LoginForms ==
    {[username |-> MASTER_USERNAME, password |-> default_pass],
     [username |-> MASTER_USERNAME, password |-> <<"x">>],
     [username |-> <<" ", "u1">>, password |-> <<"pw">>]}
UserForms ==
    {[new_username |-> <<"u1", " ">>, new_password |-> <<"pw">>],
     [new_username |-> <<" ">>, new_password |-> <<"pw">>],
     [new_username |-> MASTER_USERNAME, new_password |-> <<"pw">>]}
PermissionForms ==
    {[password |-> <<>>, checked |-> {}],
     [password |-> <<>>, checked |-> {"home", "records_es1"}],
     [password |-> <<"pw">>, checked |-> PERM_KEYS]}

\* int(request.form.get("uid", "0") or 0): no uid, a user, an id never given out
UserIds == 0..(userSeq + 1)

\* POST /login
Login(s, f) ==
    \E db \in Booted :
        LET u == Strip(f.username)
            p == Strip(f.password)
            row == {x \in db.users : x.username = u}
            user == CHOOSE x \in row : TRUE
        IN  /\ pc = Idle
            /\ nreq < MaxAccountRequests
            /\ nreq' = nreq + 1
            /\ SetAccounts(db)
            /\ IF row # {} /\ check_password_hash(user.password_hash, p)
               THEN /\ sessions' = [sessions EXCEPT ![s] =
                         [logged_in |-> TRUE, user_id |-> user.id,
                          username |-> user.username,
                          perms |-> load_user_perms(db.permissions, user.id)]]
                    /\ resp' = Answer("login", 302, s, "")
               ELSE /\ sessions' = sessions
                    /\ resp' = Answer("login", 200, s, "danger")
            /\ UNCHANGED notAccounts

\* GET /logout
Logout(s) ==
    /\ pc = Idle
    /\ nreq < MaxAccountRequests
    /\ nreq' = nreq + 1
    /\ Bootstrap
    /\ sessions' = [sessions EXCEPT ![s] = NoSession]
    /\ resp' = Answer("logout", 302, s, "")
    /\ UNCHANGED notAccounts

\* a request of the permissions page that admin_required stopped
AdminDenied(op, s, db) ==
    /\ SetAccounts(db)
    /\ sessions' = sessions
    /\ resp' = Denied(op, s, admin_required(sessions[s]))

\* where add_user can fail with an error it does not catch: nowhere, or at the INSERT
\* INTO permissions that follows the commit of the user row
AddUserFailPoints == {"none", "permissions"}

\* POST /permissions, action=add_user
AddUser(s, f, at) ==
    \E db \in Booted :
        LET username == Strip(f.new_username)
            password == Strip(f.new_password)
        IN  /\ pc = Idle
            /\ nreq < MaxAccountRequests
            /\ nreq' = nreq + 1
            /\ IF admin_required(sessions[s]) # "handler"
               THEN AdminDenied("add_user", s, db)
               ELSE /\ sessions' = sessions
                    /\ IF username = <<>> \/ password = <<>>
                       THEN /\ SetAccounts(db)
                            /\ resp' = Answer("add_user", 302, s, "warning")
                       ELSE IF \E u \in db.users : u.username = username
                       THEN /\ SetAccounts(db)
                            /\ resp' = Answer("add_user", 302, s, "danger")
                       ELSE \E uid \in NewRowIds(db.users, db.userSeq) :
                              /\ users' = db.users \cup
                                   {[id |-> uid, username |-> username,
                                     password_hash |-> generate_password_hash(password),
                                     is_admin |-> 0]}
                              /\ userSeq' = Max(db.userSeq, uid)
                              /\ IF at = "permissions"
                                 THEN /\ permissions' = db.permissions
                                      /\ resp' = Answer("add_user", 500, s, "")
                                 ELSE IF \E r \in db.permissions : r.user_id = uid
                                 THEN /\ permissions' = db.permissions
                                      /\ resp' = Answer("add_user", 302, s, "danger")
                                 ELSE /\ permissions' =
                                           db.permissions \cup PermissionRows(uid, {})
                                      /\ resp' = Answer("add_user", 302, s, "success")
            /\ UNCHANGED notAccounts

\* a faulty variant: every open session of the user is given the new set
RefreshEverySession(ss, s, uid, ps) ==
    [t \in Sessions |->
        IF ss[t].user_id = uid THEN [ss[t] EXCEPT !.perms = load_user_perms(ps, uid)]
        ELSE ss[t]]

\* if session.get("user_id") == uid: session["perms"] = load_user_perms(uid)
RefreshOwnSession(ss, s, uid, ps) ==
    IF ss[s].user_id = uid THEN [ss EXCEPT ![s].perms = load_user_perms(ps, uid)]
    ELSE ss

\* POST /permissions, action=update_user
UpdateUser(s, uid, f) ==
    \E db \in Booted :
        LET new_pass == Strip(f.password)
            ps == UpsertPermissions(db.permissions, uid, f.checked)
        IN  /\ pc = Idle
            /\ nreq < MaxAccountRequests
            /\ nreq' = nreq + 1
            /\ IF admin_required(sessions[s]) # "handler"
               THEN AdminDenied("update_user", s, db)
               ELSE /\ users' = IF new_pass = <<>> THEN db.users
                                ELSE {IF u.id = uid
                                      THEN [u EXCEPT !.password_hash =
                                                generate_password_hash(new_pass)]
                                      ELSE u : u \in db.users}
                    /\ permissions' = ps
                    /\ userSeq' = db.userSeq
                    /\ sessions' = RefreshOwnSession(sessions, s, uid, ps)
                    /\ resp' = Answer("update_user", 302, s, "success")
            /\ UNCHANGED notAccounts

\* a faulty variant: no user id is the master's
IsNeverMaster(us, uid) == FALSE

\* master_row and uid == master_row["id"]
IsMaster(us, uid) ==
    LET master_row == {u \in us : u.username = MASTER_USERNAME}
    IN  \E m \in master_row : uid = m.id

\* POST /permissions, action=delete_user
DeleteUser(s, uid) ==
    \E db \in Booted :
            /\ pc = Idle
            /\ nreq < MaxAccountRequests
            /\ nreq' = nreq + 1
            /\ IF admin_required(sessions[s]) # "handler"
               THEN AdminDenied("delete_user", s, db)
               ELSE /\ sessions' = sessions
                    /\ IF IsMaster(db.users, uid)
                       THEN /\ SetAccounts(db)
                            /\ resp' = Answer("delete_user", 302, s, "danger")
                       ELSE /\ users' = {u \in db.users : u.id # uid}
                            /\ permissions' = {r \in db.permissions : r.user_id # uid}
                            /\ userSeq' = db.userSeq
                            /\ resp' = Answer("delete_user", 302, s, "info")
            /\ UNCHANGED notAccounts

\* GET /permissions
PermissionsList(s) ==
    \E db \in Booted :
        /\ pc = Idle
        /\ nreq < MaxAccountRequests
        /\ nreq' = nreq + 1
        /\ IF admin_required(sessions[s]) # "handler"
           THEN AdminDenied("permissions_list", s, db)
           ELSE /\ SetAccounts(db)
                /\ sessions' = sessions
                /\ resp' = [op |-> "permissions_list", status |-> 200, session |-> s,
                             gate |-> "handler",
                             users |-> {<<u.id, u.username>> : u \in db.users},
                             user_perms |-> [i \in {u.id : u \in db.users} |->
                                                load_user_perms(db.permissions, i)]]
        /\ UNCHANGED notAccounts

\* the pages that only render: /home, /accounting, /records
PageKeys == {"home", "accounting_home", "records_home"}
RenderPage ==
    /\ nreq < MaxAccountRequests
    /\ nreq' = nreq + 1
    /\ resp' = [op |-> "page", status |-> 200]
    /\ UNCHANGED <<ledgerVars, commissionVars, calc, taskVars, registryVars, sheets,
                   txnVars>>

\* the accounts of a bootstrapped store; one browser is logged in as the master
InitAccounts ==
    /\ users = BootedAccounts.users
    /\ permissions = BootedAccounts.permissions
    /\ userSeq = BootedAccounts.userSeq
MasterSession ==
    [logged_in |-> TRUE, user_id |-> 1, username |-> MASTER_USERNAME, perms |-> PERM_KEYS]
NoGate == [session |-> "", key |-> "", verdict |-> "none"]
InitAuth ==
    /\ InitAccounts
    /\ gate = NoGate
    /\ sessions = [s \in Sessions |-> IF s = "s1" THEN MasterSession ELSE NoSession]

(***************************************************************************)
(* Specifications.                                                         *)
(***************************************************************************)
Init ==
    /\ daily = EmptyDaily
    /\ settings = DefaultSettings
    /\ commissions = <<>>
    /\ calc = NoCalc
    /\ InitTasks
    /\ InitTxn
    /\ InitRegistry
    /\ InitAuth
    /\ sheets = NoSheets
    /\ nreq = 0
    /\ resp = NoResponse

\* the daily saves
NextDaily ==
    \/ \E k \in SaveKeys :
          Gated("s1", AccountingKey(k[1]), "daily_save",
                \E hf \in HeaderForms, f \in Submissions : DailySave(k[1], k[2], hf, f))
    \/ \E k \in SaveKeys :
          Gated("s1", AccountingKey(k[1]), "daily_save",
                \E hf \in HeaderForms, f \in Submissions, at \in FailPoints :
                   DailySaveFails(k[1], k[2], hf, f, at))

SpecDaily == Init /\ [][NextDaily]_vars

\* the read-only pages of the ledger, over every ledger that saves leave
InitLedger ==
    /\ daily \in LedgersAfter(MaxSaves)
    /\ settings = DefaultSettings
    /\ commissions = <<>>
    /\ calc = NoCalc
    /\ InitTasks
    /\ InitTxn
    /\ InitRegistry
    /\ InitAuth
    /\ sheets = NoSheets
    /\ nreq = 0
    /\ resp = NoResponse

NextLedger ==
    \/ \E kind \in Kinds, day \in Days :
          Gated("s1", AccountingKey(kind), "daily_get", DailyGet(kind, day))
    \/ \E kind \in Kinds, from \in Days, to \in Days :
          Gated("s1", AccountingKey(kind), "movements", Movements(kind, from, to))

SpecLedger == InitLedger /\ [][NextLedger]_vars

\* the monthly commission page
NextCommission ==
    \/ \E f \in SettingsForms :
          Gated("s1", "monthly_commission", "save_settings", SaveSettings(f))
    \/ \E f \in MonthForms :
          Gated("s1", "monthly_commission", "save_commission", SaveCommission(f))
    \/ Gated("s1", "monthly_commission", "commission_page", CommissionPage)

SpecCommission == Init /\ [][NextCommission]_vars

\* calculate_monthly_commission, applied to every argument of the bounded sets
InitCalc ==
    /\ daily = EmptyDaily
    /\ settings = DefaultSettings
    /\ commissions = <<>>
    /\ calc \in {[NoCalc EXCEPT !.sales = v, !.settings = s] : v \in CalcSales, s \in CalcSettings}
    /\ InitTasks
    /\ InitTxn
    /\ InitRegistry
    /\ InitAuth
    /\ sheets = NoSheets
    /\ nreq = 0
    /\ resp = NoResponse

NextCalc == Calculate

SpecCalc == InitCalc /\ [][NextCalc]_vars

\* the commitments page and the tasks page, one request at a time
NextTasks ==
    \/ \E f \in CommitmentForms :
          Gated("s1", "financial_commitments", "commitment_add", CommitmentAdd(f))
    \/ \E f \in CommitmentForms : \E cid \in CommitmentIds :
          Gated("s1", "financial_commitments", "commitment_update", CommitmentUpdate(cid, f))
    \/ CreateOrUpdateCommitmentTask
    \/ \E cid \in CommitmentIds :
          Gated("s1", "financial_commitments", "commitment_delete", CommitmentDelete(cid))
    \/ DeleteCommitmentRow
    \/ \E f \in TaskForms : \E m \in MirrorOutcomes :
          Gated("s1", "tasks", "task_add", TaskAdd(f, m))
    \/ \E tid \in TaskIds : \E m \in MirrorOutcomes :
          Gated("s1", "tasks", "task_delete", TaskDelete(tid, m))

SpecTasks == Init /\ [][NextTasks]_vars

\* the tasks table gives an id out once: a row that was not there before has an id
\* above every id given out so far (id INTEGER PRIMARY KEY AUTOINCREMENT, as in every
\* table the application creates itself)
TasksAutoIncrement ==
    \A t \in tasks' : t.id > taskSeq \/ \E u \in tasks : u.id = t.id

\* the commitments page and the tasks page over such a tasks table
NextTaskIds ==
    \/ \E f \in CommitmentForms :
          Gated("s1", "financial_commitments", "commitment_add", CommitmentAdd(f))
    \/ \E f \in CommitmentForms : \E cid \in CommitmentIds :
          Gated("s1", "financial_commitments", "commitment_update", CommitmentUpdate(cid, f))
    \/ (CreateOrUpdateCommitmentTask /\ TasksAutoIncrement)
    \/ \E cid \in CommitmentIds :
          Gated("s1", "financial_commitments", "commitment_delete", CommitmentDelete(cid))
    \/ DeleteCommitmentRow
    \/ \E f \in TaskForms : \E m \in MirrorOutcomes :
          Gated("s1", "tasks", "task_add", TaskAdd(f, m) /\ TasksAutoIncrement)
    \/ \E tid \in TaskIds : \E m \in MirrorOutcomes :
          Gated("s1", "tasks", "task_delete", TaskDelete(tid, m))

SpecTaskIds == Init /\ [][NextTaskIds]_vars

\* the eight requests that mirror a row, each with every way its mirror call can end
NextMirrored ==
    \E m \in MirrorOutcomes :
        \/ \E k \in RecordKinds :
              Gated("s1", RecordsKey(k), "record_new",
                    \E f \in RecordForms : RecordNew(k, f, m))
        \/ \E k \in RecordKinds :
              Gated("s1", RecordsKey(k), "record_edit",
                    \E f \in RecordForms : \E rid \in RowIds(TableName(k)) :
                       RecordEdit(k, rid, f, m))
        \/ \E k \in RecordKinds : \E rid \in RowIds(TableName(k)) :
              Gated("s1", RecordsKey(k), "record_delete", RecordDelete(k, rid, m))
        \/ Gated("s1", "employees", "employee_new",
                 \E f \in EmployeeForms : EmployeeNew(f, m))
        \/ Gated("s1", "employees", "employee_edit",
                 \E f \in EmployeeForms : \E eid \in RowIds("employees") :
                    EmployeeEdit(eid, f, m))
        \/ \E eid \in RowIds("employees") :
              Gated("s1", "employees", "employee_delete", EmployeeDelete(eid, m))
        \/ \E f \in TaskForms : Gated("s1", "tasks", "task_add", MirroredTaskAdd(f, m))
        \/ \E tid \in TaskIds :
              Gated("s1", "tasks", "task_delete", MirroredTaskDelete(tid, m))

SpecMirrored == Init /\ [][NextMirrored]_vars

\* ws_upsert and ws_delete_by_id, applied to every worksheet of the bounded set
InitSheet ==
    /\ daily = EmptyDaily
    /\ settings = DefaultSettings
    /\ commissions = <<>>
    /\ calc = NoCalc
    /\ InitTasks
    /\ InitTxn
    /\ InitRegistry
    /\ InitAuth
    /\ sheets \in {[NoSheets EXCEPT !["records_es1"] = v] : v \in InitialSheets}
    /\ nreq = 0
    /\ resp = [op |-> "sheet", calls |-> <<>>]

NextSheet ==
    \/ \E k \in SheetKeys : \E r \in SheetRows(k) : WsUpsertCall(r, k)
    \/ \E k \in SheetKeys : WsDeleteCall(k)

SpecSheet == InitSheet /\ [][NextSheet]_vars

\* the login page, the permissions page and the pages that only render, from browsers
\* that are logged out at first
InitLoggedOut ==
    /\ daily = EmptyDaily
    /\ settings = DefaultSettings
    /\ commissions = <<>>
    /\ calc = NoCalc
    /\ InitTasks
    /\ InitTxn
    /\ InitRegistry
    /\ InitAccounts
    /\ sessions = [s \in Sessions |-> NoSession]
    /\ gate = NoGate
    /\ sheets = NoSheets
    /\ nreq = 0
    /\ resp = NoResponse

NextAccounts ==
    \/ \E s \in Sessions : \E f \in LoginForms : Login(s, f)
    \/ \E s \in Sessions : Logout(s)
    \/ \E s \in Sessions : \E f \in UserForms : \E at \in AddUserFailPoints : AddUser(s, f, at)
    \/ \E s \in Sessions : \E uid \in UserIds : \E f \in PermissionForms :
          UpdateUser(s, uid, f)
    \/ \E s \in Sessions : \E uid \in UserIds : DeleteUser(s, uid)
    \/ \E s \in Sessions : PermissionsList(s)
    \/ \E s \in Sessions : \E key \in PageKeys : Gated(s, key, "page", RenderPage)

SpecAccounts == InitLoggedOut /\ [][NextAccounts]_vars

\* the gated routes, asked for by browsers in every state of login, over accounts as
\* the permissions page leaves them: the master, a user who holds two keys, a user
\* whose permission rows were never written (add_user failed after its first commit),
\* and the master's rows either granted or cleared by an update_user on the master
GateAccounts ==
    { [users |-> BootedAccounts.users \cup
                 {[id |-> 2, username |-> <<"u1">>,
                   password_hash |-> generate_password_hash(<<"pw">>), is_admin |-> 0],
                  [id |-> 3, username |-> <<"u2">>,
                   password_hash |-> generate_password_hash(<<"pw">>), is_admin |-> 0]},
       permissions |-> PermissionRows(1, held) \cup PermissionRows(2, {"home", "records_es1"}),
       userSeq |-> 3] : held \in {PERM_KEYS, {}} }

\* the session login (or update_user on one's own id) leaves for user u
SessionOf(u, ps) ==
    [logged_in |-> TRUE, user_id |-> u.id, username |-> u.username,
     perms |-> load_user_perms(ps, u.id)]

InitGate ==
    /\ daily = EmptyDaily
    /\ settings = DefaultSettings
    /\ commissions = <<>>
    /\ calc = NoCalc
    /\ InitTasks
    /\ InitTxn
    /\ InitRegistry
    /\ \E db \in GateAccounts :
          /\ users = db.users
          /\ permissions = db.permissions
          /\ userSeq = db.userSeq
          /\ sessions \in [Sessions -> {NoSession} \cup
                                        {SessionOf(u, db.permissions) : u \in db.users}]
    /\ gate = NoGate
    /\ sheets = NoSheets
    /\ nreq = 0
    /\ resp = NoResponse

\* most requests of a run of the gated routes that reach their handlers
MaxGateRequests == 2

\* a daily submission of one line
OneLine == {f \in Submissions : Len(f.inputs) = 1 /\ Len(f.general) + Len(f.petty) = 0}

NextGate ==
    \/ \E s \in Sessions : \E key \in PageKeys :
          nreq < MaxGateRequests /\ Gated(s, key, "page", RenderPage)
    \/ \E s \in Sessions : \E k \in SaveKeys, hf \in HeaderForms, f \in OneLine :
          nreq < MaxGateRequests /\
          Gated(s, AccountingKey(k[1]), "daily_save", DailySave(k[1], k[2], hf, f))
    \/ \E s \in Sessions : \E f \in SettingsForms :
          nreq < MaxGateRequests /\
          Gated(s, "monthly_commission", "save_settings", SaveSettings(f))
    \/ \E s \in Sessions : \E f \in CommitmentForms :
          nreq < MaxGateRequests /\
          Gated(s, "financial_commitments", "commitment_add", CommitmentAdd(f))
    \/ CreateOrUpdateCommitmentTask
    \/ \E s \in Sessions : \E k \in RecordKinds : \E f \in RecordForms :
          nreq < MaxGateRequests /\
          Gated(s, RecordsKey(k), "record_new", RecordNew(k, f, "ok"))
    \/ \E s \in Sessions : \E f \in EmployeeForms :
          nreq < MaxGateRequests /\
          Gated(s, "employees", "employee_new", EmployeeNew(f, "missing_sheet_id"))
    \/ \E s \in Sessions : \E f \in TaskForms :
          nreq < MaxGateRequests /\ Gated(s, "tasks", "task_add", TaskAdd(f, "ok"))

SpecGate == InitGate /\ [][NextGate]_vars

\* status_color, applied to every expiry of two years, and to no date, on two days
InitColor ==
    /\ daily = EmptyDaily
    /\ settings = DefaultSettings
    /\ commissions = <<>>
    /\ calc \in {[NoColoring EXCEPT !.expiry = e, !.today = t] :
                   e \in Dates \cup {NoDate}, t \in Todays}
    /\ InitTasks
    /\ InitTxn
    /\ InitRegistry
    /\ InitAuth
    /\ sheets = NoSheets
    /\ nreq = 0
    /\ resp = NoResponse

NextColor == StatusColor

SpecColor == InitColor /\ [][NextColor]_vars

\* the tasks page, shown on two days over stores with expiry dates around the window
InitAlerts ==
    /\ daily = EmptyDaily
    /\ settings = DefaultSettings
    /\ commissions = <<>>
    /\ calc = NoCalc
    /\ InitTasks
    /\ InitTxn
    /\ \E st \in AlertStores :
          /\ records = st.records
          /\ employees = st.employees
          /\ rowSeq = [t \in {"records_es1", "records_es2", "records_es3", "employees"} |->
                         CASE t = "records_es1" -> Cardinality(st.records["ES1"])
                           [] t = "records_es2" -> Cardinality(st.records["ES2"])
                           [] t = "records_es3" -> 0
                           [] t = "employees" -> Cardinality(st.employees)]
    /\ InitAuth
    /\ sheets = NoSheets
    /\ nreq = 0
    /\ resp = NoResponse

NextAlerts == \E today \in Todays : Gated("s1", "tasks", "tasks_page", TasksPage(today))

SpecAlerts == InitAlerts /\ [][NextAlerts]_vars

\* daily saves of two workers, statement group by statement group
RaceLines == OneLine
InitRace == Init
NextDailyRace ==
    \/ \E w \in Workers, k \in SaveKeys, hf \in HeaderForms, f \in RaceLines :
          Gated("s1", AccountingKey(k[1]), "daily_save", DailyBegin(w, k[1], k[2], hf, f))
    \/ \E w \in Workers : DailyWrite(w)
    \/ \E w \in Workers : DailyCommit(w)
    \/ \E w \in Workers : DailyAbort(w)
    \/ \E w \in Workers : Locked(w, "daily_save")

SpecDailyRace == InitRace /\ [][NextDailyRace]_vars

\* two whole submissions of the daily form that differ in every header field and in
\* each of the three lists
MixForms ==
    { [header |-> [cash_start |-> <<>>, cash_end |-> <<"x">>, total_in_enjaz |-> <<>>,
                   notes |-> <<" ">>],
       lines |-> [inputs |-> <<<<<<"a">>, <<"1", ",", "2", "0", "0">>>>>>,
                  general |-> <<<<<<>>, <<"3", "0">>>>>>,
                  petty |-> <<>>]],
      [header |-> [cash_start |-> <<"1", "0", "0">>, cash_end |-> <<"1", "5", "0">>,
                   total_in_enjaz |-> <<"3", "2", "0">>, notes |-> <<"n">>],
       lines |-> [inputs |-> <<>>,
                  general |-> <<<<<<"a">>, <<"1", ",", "2", "0", "0">>>>>>,
                  petty |-> <<<<<<>>, <<"3", "0">>>>, <<<<"a">>, <<>>>>>>]] }

\* the two submissions saved by two workers, for the same days, in any interleaving
NextDailyMix ==
    \/ \E w \in Workers, k \in SaveKeys :
          Gated("s1", AccountingKey(k[1]), "daily_save",
                \E s \in MixForms : DailyBegin(w, k[1], k[2], s.header, s.lines))
    \/ \E w \in Workers : DailyWrite(w)
    \/ \E w \in Workers : DailyCommit(w)
    \/ \E w \in Workers : DailyAbort(w)
    \/ \E w \in Workers : Locked(w, "daily_save")

SpecDailyMix == InitRace /\ [][NextDailyMix]_vars

\* monthly commission saves of two workers, statement by statement
RaceMonthForms ==
    { [month |-> m, sales |-> v] :
        m \in {<<>>, <<"2024-01">>, <<" ", "2024-02">>},
        v \in {<<"x">>, <<"1", "0", "0", "0">>, <<"2", "5", "0", "0", ".", "5">>} }
NextCommissionRace ==
    \/ \E w \in Workers, f \in RaceMonthForms :
          Gated("s1", "monthly_commission", "save_commission", CommissionBegin(w, f))
    \/ \E w \in Workers : CommissionWrite(w)
    \/ \E w \in Workers : CommissionCommit(w)
    \/ \E w \in Workers : Locked(w, "save_commission")

SpecCommissionRace == InitRace /\ [][NextCommissionRace]_vars


\* every create or update form of the application, valid and invalid submissions alike
MaxFormRequests == 2
FormCommitments == CommitmentForms \cup {[party |-> <<"X">>, amount |-> <<"x">>]}
FormMonths ==
    {f \in MonthForms : f.month # <<" ", "2024-02">> /\ f.sales \in {<<>>, <<"x">>, <<"1", "0", "0", "0">>}}
FormSettings == {f \in SettingsForms : f.employees_count \in {<<"2">>, <<"2", ".", "5">>}}
FormKinds == {"ES1"}

PostRecordNew(k, f) ==
    nreq < MaxFormRequests /\ Gated("s1", RecordsKey(k), "record_new", RecordNew(k, f, "ok"))
PostRecordEdit(k, rid, f) ==
    nreq < MaxFormRequests /\
    Gated("s1", RecordsKey(k), "record_edit", RecordEdit(k, rid, f, "ok"))
PostEmployeeNew(f) ==
    nreq < MaxFormRequests /\ Gated("s1", "employees", "employee_new", EmployeeNew(f, "ok"))
PostEmployeeEdit(eid, f) ==
    nreq < MaxFormRequests /\
    Gated("s1", "employees", "employee_edit", EmployeeEdit(eid, f, "ok"))
PostCommitmentAdd(f) ==
    nreq < MaxFormRequests /\
    Gated("s1", "financial_commitments", "commitment_add", CommitmentAdd(f))
PostCommitmentUpdate(cid, f) ==
    nreq < MaxFormRequests /\
    Gated("s1", "financial_commitments", "commitment_update", CommitmentUpdate(cid, f))
PostSaveCommission(f) ==
    nreq < MaxFormRequests /\
    Gated("s1", "monthly_commission", "save_commission", SaveCommission(f))
PostSaveSettings(f) ==
    nreq < MaxFormRequests /\
    Gated("s1", "monthly_commission", "save_settings", SaveSettings(f))
PostDailySave(kind, day, hf, f) ==
    nreq < MaxFormRequests /\
    Gated("s1", AccountingKey(kind), "daily_save", DailySave(kind, day, hf, f))

NextForms ==
    \/ \E k \in FormKinds, f \in RecordForms : PostRecordNew(k, f)
    \/ \E k \in FormKinds, f \in RecordForms : \E rid \in RowIds(TableName(k)) :
          PostRecordEdit(k, rid, f)
    \/ \E f \in EmployeeForms : PostEmployeeNew(f)
    \/ \E f \in EmployeeForms : \E eid \in RowIds("employees") : PostEmployeeEdit(eid, f)
    \/ \E f \in FormCommitments : PostCommitmentAdd(f)
    \/ \E f \in FormCommitments : \E cid \in CommitmentIds : PostCommitmentUpdate(cid, f)
    \/ CreateOrUpdateCommitmentTask
    \/ \E f \in FormMonths : PostSaveCommission(f)
    \/ \E f \in FormSettings : PostSaveSettings(f)
    \/ \E k \in SaveKeys, hf \in HeaderForms, f \in OneLine : PostDailySave(k[1], k[2], hf, f)

SpecForms == Init /\ [][NextForms]_vars

\* one daily save, over longer line lists and every kind of (label, amount) pair
MaxLineRows == 3
MaxLineSaves == 1
PairForms ==
    LineForms \cup { <<<<"b">>, <<"0">>>>, <<<<" ", "c">>, <<"x">>>> }
PairSubmissions ==
    { [inputs |-> i, general |-> g, petty |-> p] :
        i \in SeqsUpTo(PairForms, MaxLineRows),
        g \in SeqsUpTo(PairForms, 1),
        p \in SeqsUpTo(PairForms, 1) }
NextLines ==
    /\ nreq < MaxLineSaves
    /\ Gated("s1", "accounting_es1", "daily_save",
             \E hf \in HeaderForms, f \in PairSubmissions :
                DailySave("ES1", DaySeq[1], hf, f))

SpecLines == Init /\ [][NextLines]_vars

\* the mirrored requests in two steps each, one request at a time
NextSteps ==
    \/ \E k \in FormKinds :
          Gated("s1", RecordsKey(k), "record_new",
                \E f \in RecordForms : RecordNewCommit(1, k, f))
    \/ \E k \in FormKinds :
          Gated("s1", RecordsKey(k), "record_edit",
                \E f \in RecordForms : \E rid \in RowIds(TableName(k)) :
                   RecordEditCommit(1, k, rid, f))
    \/ \E k \in FormKinds :
          Gated("s1", RecordsKey(k), "record_delete",
                \E rid \in RowIds(TableName(k)) : RecordDeleteCommit(1, k, rid))
    \/ Gated("s1", "employees", "employee_new",
             \E f \in EmployeeForms : EmployeeNewCommit(1, f))
    \/ Gated("s1", "employees", "employee_edit",
             \E f \in EmployeeForms : \E eid \in RowIds("employees") :
                EmployeeEditCommit(1, eid, f))
    \/ Gated("s1", "employees", "employee_delete",
             \E eid \in RowIds("employees") : EmployeeDeleteCommit(1, eid))
    \/ Gated("s1", "tasks", "task_add", \E f \in TaskForms : TaskAddCommit(1, f))
    \/ Gated("s1", "tasks", "task_delete", \E tid \in TaskIds : TaskDeleteCommit(1, tid))
    \/ \E m \in MirrorOutcomes : MirrorCall(1, m)

SpecSteps == Init /\ [][NextSteps]_vars

(***************************************************************************)
(* Properties of the daily ledger.                                         *)
(***************************************************************************)
\* the sum of the stored amounts of one header in one line table
StoredSum(rows, hid) ==
    LET idx == {i \in 1..Len(rows) : rows[i].header_id = hid}
        RECURSIVE Add(_)
        Add(S) == IF S = {} THEN 0
                  ELSE LET i == CHOOSE i \in S : TRUE IN rows[i].amount + Add(S \ {i})
    IN  Add(idx)

\* C1: the daily page shows expenses = sum(general) + sum(petty),
\* total_overall = sum(inputs) + expenses + cash_end - cash_start and
\* error = total_overall - total_in_enjaz, computed from the stored header and
\* line items; a day without a header shows 0 for all of them.
C1_DailyViewTotals ==
    resp.op = "daily" =>
        LET hid == HeaderId(daily.header, resp.kind, resp.day_date)
            t == resp.totals
            si == StoredSum(daily.inputs, hid)
            sg == StoredSum(daily.general, hid)
            sp == StoredSum(daily.petty, hid)
        IN  IF hid = 0
            THEN /\ t.expenses = 0
                 /\ t.total_overall = 0
                 /\ t.error = 0
                 /\ t.inputs = 0 /\ t.general = 0 /\ t.petty = 0
                 /\ t.cash_start = 0 /\ t.cash_end = 0 /\ t.total_in_enjaz = 0
            ELSE /\ t.expenses = sg + sp
                 /\ t.total_overall =
                       si + sg + sp + daily.header[hid].cash_end - daily.header[hid].cash_start
                 /\ t.error = t.total_overall - daily.header[hid].total_in_enjaz

\* a day with inputs, expenses, cash and a reconciliation error is shown
C1_Witness ==
    /\ resp.op = "daily"
    /\ resp.header # 0
    /\ resp.totals.inputs # 0
    /\ resp.totals.expenses # 0
    /\ resp.totals.cash_start # 0
    /\ resp.totals.error # 0

RECURSIVE SumField(_, _)
SumField(rows, name) ==
    IF rows = <<>> THEN 0 ELSE Head(rows)[name] + SumField(Tail(rows), name)

C3_SaveReplacesAtomically ==
    [][resp'.op = "daily_save" =>
        IF resp'.status = 302
        THEN LET hid == HeaderId(daily'.header, resp'.kind, resp'.day_date)
             IN  /\ hid # 0
                 /\ LinesOf(daily'.inputs, hid) = KeptLines(hid, resp'.lines.inputs)
                 /\ LinesOf(daily'.general, hid) = KeptLines(hid, resp'.lines.general)
                 /\ LinesOf(daily'.petty, hid) = KeptLines(hid, resp'.lines.petty)
                 /\ \A h \in 1..Len(daily'.header) :
                       h # hid =>
                           /\ h <= Len(daily.header)
                           /\ daily'.header[h] = daily.header[h]
                           /\ LinesOf(daily'.inputs, h) = LinesOf(daily.inputs, h)
                           /\ LinesOf(daily'.general, h) = LinesOf(daily.general, h)
                           /\ LinesOf(daily'.petty, h) = LinesOf(daily.petty, h)
        ELSE daily' = daily]_vars

\* a second save was committed while another header keeps its rows
C3_Witness ==
    /\ resp.op = "daily_save"
    /\ resp.status = 302
    /\ nreq = 2
    /\ Len(daily.header) = 2
    /\ LinesOf(daily.inputs, 1) # <<>>
    /\ LinesOf(daily.petty, 2) # <<>>

(***************************************************************************)
(* Properties of the monthly commission.                                   *)
(***************************************************************************)
\* C4: for every sales figure and settings triple, an employee count of 0 or below
\* included, calculate_monthly_commission returns total_commission = sales * rate
\* and employee_commission = (sales * rate - fixed_deduction) / max(employee_count, 1).
C4_CommissionFormula ==
    calc.done =>
        LET s == calc.settings
            num == calc.employee_commission[1]
            den == calc.employee_commission[2]
        IN  /\ calc.total_commission = calc.sales * s.commission_rate
            /\ den # 0
            /\ num * Max(s.employees_count, 1) =
                  (calc.sales * s.commission_rate - s.fixed_deduction * RateScale) * den

\* C5: saving the settings leaves every stored monthly row as it was, and a stored
\* row changes only in a save of its own month.
C5_SettingsLeaveRows ==
    [][/\ resp'.op = "save_settings" => commissions' = commissions
       /\ \A i \in 1..Len(commissions) :
             /\ i <= Len(commissions')
             /\ commissions'[i] # commissions[i] =>
                   /\ resp'.op = "save_commission"
                   /\ resp'.flash = "success"
                   /\ resp'.month = commissions[i].month]_vars

\* the settings were saved after a month whose snapshot differs from them
C5_Witness ==
    /\ resp.op = "save_settings"
    /\ resp.flash = "success"
    /\ \E i \in 1..Len(commissions) :
          /\ commissions[i].rate_snapshot # settings.commission_rate
          /\ commissions[i].employees_snapshot # settings.employees_count

(***************************************************************************)
(* Properties of the commitments and their tasks.                          *)
(***************************************************************************)
\* the task id commitment cid is linked to; 0 when cid is no row or has no link
LinkOf(cs, cid) ==
    IF \E c \in cs : c.id = cid THEN (CHOOSE c \in cs : c.id = cid).task_id ELSE 0

\* C6: after every completed request, every commitment whose task link is non-null
\* refers to an existing task whose title is the title computed from the commitment's
\* current party and amount.
C6_LinkedTaskInSync ==
    pc = Idle =>
        \A c \in commitments :
            c.task_id # 0 =>
                \E t \in tasks :
                    t.id = c.task_id /\ t.title = CommitmentTaskTitle(c.party, c.amount)

\* C7: an add with a non-empty party creates exactly one new task, titled from the
\* commitment, and links it; an update of a commitment that has a linked task creates
\* no task, keeps the link, and changes nothing but the title of the linked task.
C7_AddCreatesUpdateRenames ==
    [][/\ (pc = Idle /\ pc'.op \in {"add", "update"}) =>
             /\ tasks' = tasks
             /\ \A c \in commitments : LinkOf(commitments', c.id) = c.task_id
       /\ (pc.op = "add" /\ pc' = Idle) =>
             \E t \in tasks' :
                /\ \A u \in tasks : u.id # t.id
                /\ tasks' = tasks \cup {t}
                /\ \E c \in commitments :
                      /\ c.id = pc.cid
                      /\ t.title = CommitmentTaskTitle(c.party, c.amount)
                      /\ commitments' = (commitments \ {c}) \cup {[c EXCEPT !.task_id = t.id]}
       /\ (pc.op = "update" /\ pc' = Idle /\ LinkOf(commitments, pc.cid) # 0) =>
             /\ commitments' = commitments
             /\ Cardinality(tasks') = Cardinality(tasks)
             /\ \A t \in tasks :
                   IF t.id = LinkOf(commitments, pc.cid)
                   THEN \E c \in commitments :
                           /\ c.id = pc.cid
                           /\ [t EXCEPT !.title = CommitmentTaskTitle(c.party, c.amount)] \in tasks'
                   ELSE t \in tasks']_vars

\* a linked commitment was updated to another amount: still one task, renamed
C7_Witness ==
    /\ resp.op = "commitment_update"
    /\ nreq = 2
    /\ Cardinality(tasks) = 1
    /\ \E c \in commitments :
          /\ c.id = resp.cid
          /\ c.amount = 25050
          /\ \E t \in tasks :
                t.id = c.task_id /\ t.title = CommitmentTaskTitle(c.party, c.amount)

\* C8: a delete removes the linked task first, the commitment still there, and then
\* the commitment; afterwards neither exists, and every other commitment and every
\* other task is as it was.
C8_DeleteTaskThenCommitment ==
    [][/\ (pc = Idle /\ pc'.op = "delete") =>
             /\ commitments' = commitments
             /\ tasks' = {t \in tasks :
                            LinkOf(commitments, pc'.cid) = 0
                               \/ t.id # LinkOf(commitments, pc'.cid)}
       /\ (pc.op = "delete" /\ pc' = Idle) =>
             /\ tasks' = tasks
             /\ commitments' = {c \in commitments : c.id # pc.cid}
             /\ LinkOf(commitments, pc.cid) # 0 =>
                   \A t \in tasks' : t.id # LinkOf(commitments, pc.cid)]_vars

\* of two commitments with their tasks, the first was deleted: the second and its
\* task remain
C8_Witness ==
    /\ resp.op = "commitment_delete"
    /\ resp.cid = 1
    /\ nreq = 3
    /\ commitSeq = 2
    /\ \E c \in commitments :
          /\ commitments = {c}
          /\ c.id = 2
          /\ \E t \in tasks :
                /\ tasks = {t}
                /\ t.id = c.task_id
                /\ c.task_id = 2

(***************************************************************************)
(* Properties of the spreadsheet mirror.                                   *)
(***************************************************************************)
\* the data rows of a worksheet whose first cell is str(k)
KeyRows(values, k) ==
    {i \in 2..Len(values) : values[i] # <<>> /\ values[i][1] = FormatInt(k)}

\* row i holds the values: its cells under the headers are the row's values
HoldsValues(values, i, row_values) ==
    /\ Len(values[i]) >= Len(row_values)
    /\ SubSeq(values[i], 1, Len(row_values)) = row_values

\* C9: from a sheet in which no key occurs twice, upserting the same (keyId, row)
\* twice leaves exactly one data row whose first cell is str(keyId), holding the
\* row's values (the second upsert changes nothing); upserting and then deleting
\* that keyId leaves no row for it.
C9_UpsertIdempotent ==
    [][LET n == Len(resp.calls)
           ws == sheets.records_es1
           last == resp.calls[n]
           call == resp'.calls[n + 1]
       IN  (Len(resp'.calls) = n + 1 /\ n >= 1 /\ last.fn = "ws_upsert"
               /\ call.row_id = last.row_id) =>
              /\ (call.fn = "ws_upsert" /\ call.row_values = last.row_values) =>
                    /\ sheets' = sheets
                    /\ Cardinality(KeyRows(ws, call.row_id)) = 1
                    /\ \A i \in KeyRows(ws, call.row_id) :
                          HoldsValues(ws, i, call.row_values)
              /\ call.fn = "ws_delete_by_id" =>
                    KeyRows(sheets'.records_es1, call.row_id) = {}]_vars

\* the same row was upserted twice into a sheet that held another row for its key,
\* and then deleted
C9_Witness ==
    /\ Len(resp.calls) = 3
    /\ resp.calls[1] = resp.calls[2]
    /\ resp.calls[1].fn = "ws_upsert"
    /\ resp.calls[1].row_id = 1
    /\ resp.calls[3].fn = "ws_delete_by_id"
    /\ resp.calls[3].row_id = 1
    /\ KeyRows(sheets.records_es1, 1) = {}
    /\ KeyRows(sheets.records_es1, 2) # {}

(***************************************************************************)
(* Properties of the mirrored requests.                                    *)
(***************************************************************************)
MirroredOps ==
    {"record_new", "record_edit", "record_delete", "employee_new", "employee_edit",
     "employee_delete", "task_add", "task_delete"}

\* C10: whatever way the mirror call of a mirrored request fails, the request
\* completes with its normal success response (the redirect).
C10_MirrorFailureIgnored ==
    (resp.op \in MirroredOps /\ resp.mirror \in MirrorOutcomes \ {"ok"}) =>
        resp.status = 302

(***************************************************************************)
(* Properties of the accounts and of the gates.                            *)
(***************************************************************************)
PermissionOps == {"add_user", "update_user", "delete_user", "permissions_list"}

\* a session that is logged in under the master's name and holds the permissions key
IsAdminSession(se) ==
    se.logged_in /\ se.username = MASTER_USERNAME /\ "permissions" \in se.perms

\* the users and permissions tables after the step are what the bootstrap of the
\* request made of them
OnlyBootstrapped ==
    \E db \in Booted : users' = db.users /\ permissions' = db.permissions

\* everything but the accounts is as it was before the step
HandlerDidNotRun ==
    UNCHANGED <<ledgerVars, commissionVars, calc, taskVars, registryVars, sheets,
                txnVars, userSeq>>

C13_MasterHoldsEveryKey ==
    \A s \in Sessions :
        sessions[s].logged_in /\ sessions[s].username = MASTER_USERNAME =>
            \A k \in PERM_KEYS : permission_required(sessions[s], k) = "handler"

MasterExists == \E u \in users : u.username = MASTER_USERNAME

C16_FourBuckets ==
    calc.done =>
        LET dl == toordinal(calc.expiry) - toordinal(calc.today)
        IN  /\ calc.color \in {"bg-blue", "bg-green", "bg-yellow", "bg-red"}
            /\ calc.color = "bg-blue" <=> calc.expiry = NoDate
            /\ calc.expiry # NoDate =>
                   /\ calc.color = "bg-green" <=> dl > 45
                   /\ calc.color = "bg-yellow" <=> dl \in 1..45
                   /\ calc.color = "bg-red" <=> dl <= 0

\* an expiry 45 days ahead was coloured as a warning
C16_Witness ==
    /\ calc.done
    /\ calc.expiry # NoDate
    /\ toordinal(calc.expiry) - toordinal(calc.today) = 45
    /\ calc.color = "bg-yellow"

\* every expiry field of the store, as <<source, name, expiry text>>, with the row and
\* the column it is the field of
ExpiryFields ==
    UNION {{<<k, r.id, "expiry_date", <<k, r.record_type, r.expiry_date>>>> :
               r \in records[k]} : k \in RecordKinds}
    \cup
    {<<"employees", e.id, c[1], <<"employees", c[2] \o Strip(e.data.name_ar), e.data[c[1]]>>>> :
        e \in employees,
        c \in {<<"passport_expiry", <<"passport expiry ">>>>,
               <<"iqama_expiry", <<"iqama expiry ">>>>,
               <<"insurance_expiry", <<"insurance expiry ">>>>}}

\* the date a field holds, NoDate if it holds none
DateOf(f) == IF f[4][3] = Null THEN NoDate ELSE fromisoformat(Strip(f[4][3]))

\* what identifies the alert of a field on the page
AlertKey(f, today) ==
    <<f[4][1], f[4][2], isoformat(DateOf(f)), toordinal(DateOf(f)) - toordinal(today)>>

\* C15: the alert list of the tasks page holds exactly one alert for each expiry field
\* (the expiry of a record, the passport, iqama and insurance expiry of an employee)
\* that holds a date at most 45 days after today, expired dates included, and no
\* other alert
C15_AlertsExactlyTheDue ==
    resp.op = "tasks_page" =>
        LET due == {f \in ExpiryFields :
                       /\ DateOf(f) # NoDate
                       /\ toordinal(DateOf(f)) - toordinal(resp.today) <= 45}
            shown(key) == {i \in 1..Len(resp.alerts) :
                             <<resp.alerts[i].source, resp.alerts[i].name,
                               resp.alerts[i].expiry, resp.alerts[i].days_left>> = key}
        IN  /\ Len(resp.alerts) = Cardinality(due)
            /\ \A f \in due :
                   Cardinality(shown(AlertKey(f, resp.today))) =
                   Cardinality({g \in due : AlertKey(g, resp.today) = AlertKey(f, resp.today)})

\* the page showed a field at 45 days and an expired one, and left out a field at 46
\* days and a field without a date
C15_Witness ==
    /\ resp.op = "tasks_page"
    /\ \E i \in 1..Len(resp.alerts) : resp.alerts[i].days_left = 45
    /\ \E i \in 1..Len(resp.alerts) : resp.alerts[i].days_left < 0
    /\ \E f \in ExpiryFields :
          DateOf(f) # NoDate /\ toordinal(DateOf(f)) - toordinal(resp.today) = 46
    /\ \E f \in ExpiryFields : f[4][3] = Null

(***************************************************************************)
(* Properties of concurrent saves.                                         *)
(***************************************************************************)
\* the headers of a (branch, date) pair
HeadersOf(hs, kind, day) == {i \in 1..Len(hs) : hs[i].es = kind /\ hs[i].day_date = day}

\* a worker's save of a pair is committed by this step
CommitsDaily(w) ==
    /\ inflight[w].op = "daily_save"
    /\ inflight[w].at = "written"
    /\ inflight'[w] = Idle
    /\ resp'.status = 302

\* C17: whatever the interleaving of the daily saves of two workers, every
\* (branch, date) pair has at most one header; and the commit of a save for a pair
\* that has a header leaves the number of headers as it is and gives that header,
\* at its place, the submitted fields.
C17_OneHeaderPerDay ==
    /\ [](\A k \in Kinds, d \in Days : Cardinality(HeadersOf(daily.header, k, d)) <= 1)
    /\ [][\A w \in Workers :
            CommitsDaily(w) /\ HeadersOf(daily.header, inflight[w].kind, inflight[w].day) # {}
            => /\ Len(daily'.header) = Len(daily.header)
               /\ \A i \in 1..Len(daily.header) :
                     IF i \in HeadersOf(daily.header, inflight[w].kind, inflight[w].day)
                     THEN /\ daily'.header[i].es = inflight[w].kind
                          /\ daily'.header[i].day_date = inflight[w].day
                          /\ daily'.header[i].cash_end = ToFloat(inflight[w].header.cash_end, 0)
                          /\ daily'.header[i].notes = Strip(inflight[w].header.notes)
                     ELSE daily'.header[i] = daily.header[i]]_vars

\* a save of a day that has a header has run its statements and created none, while
\* the other worker holds a parsed save of the same day, after a committed save of it
C17_Witness ==
    /\ inflight[1].op = "daily_save"
    /\ inflight[2].op = "daily_save"
    /\ inflight[1].at = "written"
    /\ inflight[2].at = "parsed"
    /\ inflight[1].day = inflight[2].day
    /\ HeadersOf(daily.header, "ES1", inflight[1].day) # {}
    /\ Len(inflight[1].txn.header) = Len(daily.header)
    /\ resp.op = "daily_save"
    /\ resp.status = 302
    /\ resp.day_date = inflight[1].day

\* the rows of a month
RowsOfMonth(rows, month) == {i \in 1..Len(rows) : rows[i].month = month}

\* a worker's monthly save is committed by this step
CommitsCommission(w) ==
    /\ inflight[w].op = "save_commission"
    /\ inflight[w].at = "written"
    /\ inflight'[w] = Idle
    /\ resp'.status = 302

\* C18: whatever the interleaving of the monthly commission saves of two workers,
\* two requests that both found no row for the month included, every month has at
\* most one row; and the commit of a save for a month that has a row leaves the
\* number of rows as it is and replaces that row, at its place, by the one computed.
C18_OneRowPerMonth ==
    /\ [](\A i, j \in 1..Len(commissions) :
             commissions[i].month = commissions[j].month => i = j)
    /\ [][\A w \in Workers :
            CommitsCommission(w) /\ RowsOfMonth(commissions, inflight[w].row.month) # {}
            => /\ Len(commissions') = Len(commissions)
               /\ \A i \in 1..Len(commissions) :
                     commissions'[i] =
                        IF i \in RowsOfMonth(commissions, inflight[w].row.month)
                        THEN inflight[w].row
                        ELSE commissions[i]]_vars

\* two requests found no row for a month, one inserted and committed, and the INSERT
\* of the other was refused: the month has its one row
C18_Witness ==
    /\ resp.op = "save_commission"
    /\ resp.status = 500
    /\ resp.error = "integrity"
    /\ Cardinality(RowsOfMonth(commissions, resp.month)) = 1
    /\ \A w \in Workers : inflight[w] = Idle

(***************************************************************************)
(* Properties of form validation.                                          *)
(***************************************************************************)
\* the tables of the database
StoreTables ==
    <<daily, settings, commissions, commitments, tasks, commitSeq, taskSeq,
      records, employees, rowSeq, accountVars>>

\* a required field left empty or blank
MissingField(v) == Strip(v) = <<>>

\* a number field holding a text that is no number, thousands separators aside
UnparsableNumber(v) ==
    LET s == RemoveCommas(Strip(v))
    IN  s # <<>> /\ ~IsFloat(s, RatePlaces)

\* a daily submission with a number that is no number
UnparsableDaily(hf, f) ==
    \/ \E k \in {"cash_start", "cash_end", "total_in_enjaz"} : UnparsableNumber(hf[k])
    \/ \E k \in {"inputs", "general", "petty"} :
          \E i \in 1..Len(f[k]) : UnparsableNumber(f[k][i][2])

\* C19: a create or update form submitted with a required field missing or with a
\* number that cannot be parsed writes nothing to the tables: record new and edit
\* (record number), employee new and edit (Arabic name), commitment add and update
\* (party, amount), monthly commission save (month, sales), commission settings
\* save (rate, deduction, employee count) and daily save (the three header amounts
\* and the line amounts).
C19_InvalidWritesNothing ==
    [][/\ \A k \in FormKinds, f \in RecordForms :
             PostRecordNew(k, f) /\ MissingField(f.record_number)
             => UNCHANGED StoreTables
       /\ \A k \in FormKinds, f \in RecordForms : \A rid \in RowIds(TableName(k)) :
             PostRecordEdit(k, rid, f) /\ MissingField(f.record_number)
             => UNCHANGED StoreTables
       /\ \A f \in EmployeeForms :
             PostEmployeeNew(f) /\ MissingField(f.name_ar) => UNCHANGED StoreTables
       /\ \A f \in EmployeeForms : \A eid \in RowIds("employees") :
             PostEmployeeEdit(eid, f) /\ MissingField(f.name_ar) => UNCHANGED StoreTables
       /\ \A f \in FormCommitments :
             PostCommitmentAdd(f) /\ (MissingField(f.party) \/ UnparsableNumber(f.amount))
             => UNCHANGED StoreTables
       /\ \A f \in FormCommitments : \A cid \in CommitmentIds :
             PostCommitmentUpdate(cid, f)
             /\ (MissingField(f.party) \/ UnparsableNumber(f.amount))
             => UNCHANGED StoreTables
       /\ \A f \in FormMonths :
             PostSaveCommission(f)
             /\ (MissingField(f.month) \/ MissingField(f.sales) \/ UnparsableNumber(f.sales))
             => UNCHANGED StoreTables
       /\ \A f \in FormSettings :
             PostSaveSettings(f)
             /\ (\/ UnparsableNumber(f.rate)
                 \/ UnparsableNumber(f.base_deduction)
                 \/ (~MissingField(f.employees_count) /\ ~IsInt(f.employees_count)))
             => UNCHANGED StoreTables
       /\ \A k \in SaveKeys, hf \in HeaderForms, f \in OneLine :
             PostDailySave(k[1], k[2], hf, f) /\ UnparsableDaily(hf, f)
             => UNCHANGED StoreTables]_vars

(***************************************************************************)
(* Properties of the line items of a daily save.                           *)
(***************************************************************************)
EmptyLabel(pair) == Strip(pair[1]) = <<>>
ZeroAmount(pair) == ToFloat(pair[2], 0) = 0

\* the places, in a submitted list, of the pairs that are not dropped
StoredPlaces(lines) == {i \in 1..Len(lines) : ~(EmptyLabel(lines[i]) /\ ZeroAmount(lines[i]))}

\* the place, among the stored rows, of the pair submitted at place i
StoredRank(lines, i) == Cardinality({j \in StoredPlaces(lines) : j <= i})

\* C20: after a daily save, for each of the three line-item kinds, the stored rows of
\* the day are the submitted pairs without those of empty label and zero amount, in
\* submission order; a pair of empty label and nonzero amount is stored under the
\* placeholder label, every other pair under its own label, each with its amount.
C20_LinePairs ==
    (resp.op = "daily_save" /\ resp.status = 302) =>
        LET hid == HeaderId(daily.header, resp.kind, resp.day_date)
        IN  \A k \in {"inputs", "general", "petty"} :
                LET lines == resp.lines[k]
                    stored == LinesOf(daily[k], hid)
                IN  /\ Len(stored) = Cardinality(StoredPlaces(lines))
                    /\ \A i \in StoredPlaces(lines) :
                          /\ stored[StoredRank(lines, i)].type =
                                IF EmptyLabel(lines[i]) THEN Placeholder
                                ELSE Strip(lines[i][1])
                          /\ stored[StoredRank(lines, i)].amount = ToFloat(lines[i][2], 0)

\* a save whose inputs hold, in this order, a labelled pair, a pair of empty label
\* and zero amount, and a pair of empty label and nonzero amount: two rows are stored
C20_Witness ==
    /\ resp.op = "daily_save"
    /\ resp.status = 302
    /\ Len(resp.lines.inputs) = 3
    /\ ~EmptyLabel(resp.lines.inputs[1])
    /\ EmptyLabel(resp.lines.inputs[2]) /\ ZeroAmount(resp.lines.inputs[2])
    /\ EmptyLabel(resp.lines.inputs[3]) /\ ~ZeroAmount(resp.lines.inputs[3])
    /\ Len(daily.inputs) = 2
    /\ daily.inputs[2].type = Placeholder

\* the day an alert gives as its expiry (NoDate: it gives none)
AlertDate(a) == fromisoformat(a.expiry)

\* C21: on the tasks page, whatever the record and employee tables hold, the alerts
\* are in ascending order of expiry date, and an alert without a date comes after
\* every alert that has one.
C21_AlertsSorted ==
    resp.op = "tasks_page" =>
        \A i, j \in 1..Len(resp.alerts) :
            i < j =>
               LET di == AlertDate(resp.alerts[i])
                   dj == AlertDate(resp.alerts[j])
               IN  /\ di = NoDate => dj = NoDate
                   /\ (di # NoDate /\ dj # NoDate) => toordinal(di) <= toordinal(dj)

\* a page whose first alert is an employee's and whose last is a record's, with a
\* later date: the loops found them in the other order
C21_Witness ==
    /\ resp.op = "tasks_page"
    /\ Len(resp.alerts) >= 3
    /\ resp.alerts[1].source = "employees"
    /\ resp.alerts[Len(resp.alerts)].source = "ES1"
    /\ toordinal(AlertDate(resp.alerts[1])) < toordinal(AlertDate(resp.alerts[Len(resp.alerts)]))

\* the data rows of a worksheet (row 2 onward) whose first cell is not str(k), in order
OtherRows(values, k) ==
    SelectSeq(SubSeq(values, 2, Len(values)),
              LAMBDA r : r = <<>> \/ r[1] # FormatInt(k))

\* C22: after ws_upsert the first row of the sheet is the expected header row; an
\* upsert or a delete for a key leaves the data rows (row 2 onward) whose first cell
\* is not the key's string as they were, in content and in order; a delete for a key
\* that no data row holds leaves the whole sheet as it was.
C22_OtherRowsKept ==
    [][LET n == Len(resp.calls)
           call == resp'.calls[n + 1]
           before == sheets.records_es1
           after == sheets'.records_es1
       IN  Len(resp'.calls) = n + 1 =>
              /\ OtherRows(after, call.row_id) = OtherRows(before, call.row_id)
              /\ call.fn = "ws_upsert" => (after # <<>> /\ after[1] = RecordHeaders)
              /\ (call.fn = "ws_delete_by_id" /\ KeyRows(before, call.row_id) = {})
                    => after = before]_vars

\* a sheet whose row 1 was not the header row: key 1 was upserted (the headers took
\* row 1, the row was appended below the row of key 2), deleted, and deleted again
C22_Witness ==
    /\ Len(resp.calls) = 3
    /\ resp.calls[1].fn = "ws_upsert"
    /\ resp.calls[2].fn = "ws_delete_by_id"
    /\ resp.calls[3].fn = "ws_delete_by_id"
    /\ \A i \in 1..3 : resp.calls[i].row_id = 1
    /\ sheets.records_es1 = <<RecordHeaders, <<<<"2">>, <<"old">>, <<"7", "0", "9">>, <<>>>>>>

(***************************************************************************)
(* Properties of the order of commit and mirror.                           *)
(***************************************************************************)
\* the stored rows of the table a worksheet mirrors, each as its worksheet row
TableImage(tab) ==
    IF tab = "employees" THEN {EmployeeSheetRow(e.id, e.data) : e \in employees}
    ELSE IF tab = "tasks_manual"
    THEN {<<FormatInt(t.id), t.title, t.due_date, <<"now">>>> : t \in tasks}
    ELSE UNION {{<<FormatInt(r.id), r.record_type, r.record_number, OrEmpty(r.expiry_date)>> :
                    r \in records[k]} : k \in {k \in RecordKinds : TableName(k) = tab}}

\* the store holds the row change of the request: the row written, or no row of the
\* id deleted
HoldsChange(x) ==
    IF x.fn = "ws_upsert" THEN x.row \in TableImage(x.tab)
    ELSE \A row \in TableImage(x.tab) : row[1] # FormatInt(x.id)

\* a worker is between its commit and its worksheet call
AtMirror(w) == inflight[w].op # "idle" /\ inflight[w].at = "committed"

\* C23: in every mirrored request the worksheet is written only by the mirror call,
\* which comes after the commit of the request's row change: when the call is made,
\* whatever its outcome (failures included), the store holds the row change, and
\* the call leaves the store as it is.
C23_MirrorAfterCommit ==
    /\ [](\A w \in Workers : AtMirror(w) => HoldsChange(inflight[w]))
    /\ [][/\ sheets' # sheets => \E w \in Workers : AtMirror(w) /\ inflight'[w] = Idle
          /\ \A w \in Workers :
                (AtMirror(w) /\ inflight'[w] = Idle) =>
                   /\ UNCHANGED <<records, employees, tasks, rowSeq, taskSeq>>
                   /\ resp'.mirror \in MirrorOutcomes
                   /\ resp'.id = inflight[w].id]_vars

\* the worksheet call of a record edit raised after its commit: the request ended in a
\* 500 and the edited row is stored
C23_Witness ==
    /\ resp.op = "record_edit"
    /\ resp.status = 500
    /\ resp.mirror = "write_error"
    /\ \E r \in records["ES1"] :
          r.id = resp.id /\ r.expiry_date = isoformat(<<2025, 1, 1>>)
    /\ \A w \in Workers : inflight[w] = Idle

(***************************************************************************)
(* Properties of two saves of one day.                                     *)
(***************************************************************************)
\* the header and the three lists of a day are those one submission leaves
DayIsOf(d, kind, day, hf, f) ==
    LET hid == HeaderId(d.header, kind, day)
    IN  /\ hid # 0
        /\ d.header[hid].cash_start = ToFloat(hf.cash_start, 0)
        /\ d.header[hid].cash_end = ToFloat(hf.cash_end, 0)
        /\ d.header[hid].total_in_enjaz = ToFloat(hf.total_in_enjaz, 0)
        /\ d.header[hid].notes = Strip(hf.notes)
        /\ LinesOf(d.inputs, hid) = KeptLines(hid, f.inputs)
        /\ LinesOf(d.general, hid) = KeptLines(hid, f.general)
        /\ LinesOf(d.petty, hid) = KeptLines(hid, f.petty)

\* C24: whatever the interleaving of the daily saves of two workers for the same
\* (branch, date), the stored header fields and the three stored lists of a day that
\* has a header are all those of one and the same submission, never fields or rows of
\* two; and the commit of a save leaves the day as the submission of that save, so
\* the save that commits last wins.
C24_LastWriteWins ==
    /\ [](\A k \in Kinds, day \in Days :
             HeaderId(daily.header, k, day) # 0
             => \E s \in MixForms : DayIsOf(daily, k, day, s.header, s.lines))
    /\ [][\A w \in Workers :
            CommitsDaily(w)
            => DayIsOf(daily', inflight[w].kind, inflight[w].day,
                       inflight[w].header, inflight[w].lines)]_vars

\* a day holds one submission whole, while one worker has run the statements of the
\* other submission for that day and the other worker holds a save of the day too
C24_Witness ==
    /\ inflight[1].op = "daily_save"
    /\ inflight[2].op = "daily_save"
    /\ inflight[1].at = "parsed"
    /\ inflight[2].at = "written"
    /\ inflight[1].day = inflight[2].day
    /\ inflight[1].header # inflight[2].header
    /\ DayIsOf(daily, "ES1", inflight[1].day, inflight[1].header, inflight[1].lines)
    /\ DayIsOf(inflight[2].txn, "ES1", inflight[2].day, inflight[2].header,
               inflight[2].lines)
    /\ LinesOf(daily.inputs, HeaderId(daily.header, "ES1", inflight[1].day)) # <<>>
    /\ LinesOf(inflight[2].txn.inputs, HeaderId(daily.header, "ES1", inflight[1].day)) = <<>>

(***************************************************************************)
(* Properties of the stored commission rows and settings.                  *)
(***************************************************************************)
\* the amounts of a row are those its own snapshot gives for its sales; the quotient
\* <<n, d>> equals x / y when y and d are not 0 and n * y = x * d
RowMatchesSnapshot(r) ==
    /\ r.total_commission = r.sales_before_tax * r.rate_snapshot
    /\ r.employees_snapshot # 0
    /\ r.employee_commission[2] # 0
    /\ r.employee_commission[1] * r.employees_snapshot =
          (r.total_commission - r.deduction_snapshot * RateScale) * r.employee_commission[2]

\* C25: after any sequence of settings saves and monthly saves, every stored row has
\* total_commission = sales_before_tax * rate_snapshot and employee_commission =
\* (total_commission - deduction_snapshot) / employees_snapshot; and a monthly save
\* that is accepted leaves, in the row of its month, the snapshot of the settings the
\* request read.
C25_RowsMatchSnapshot ==
    /\ [](\A i \in 1..Len(commissions) : RowMatchesSnapshot(commissions[i]))
    /\ [][(resp'.op = "save_commission" /\ resp'.flash = "success")
            => LET i == MonthRow(commissions', resp'.month)
               IN  /\ i # 0
                   /\ commissions'[i].rate_snapshot = settings.commission_rate
                   /\ commissions'[i].deduction_snapshot = settings.fixed_deduction
                   /\ commissions'[i].employees_snapshot = settings.employees_count]_vars

\* two months saved under different settings, and the settings changed again since
C25_Witness ==
    /\ Len(commissions) = 2
    /\ commissions[1].employees_snapshot = DefaultSettings.employees_count
    /\ commissions[2].employees_snapshot = 2
    /\ commissions[2].rate_snapshot # commissions[1].rate_snapshot
    /\ commissions[2].sales_before_tax = 250050
    /\ settings.employees_count = 1
    /\ \A i \in 1..2 : RowMatchesSnapshot(commissions[i])

\* C26: in every state reached through the application, from the default settings
\* row, the stored employee count is at least 1, whatever was typed in the settings
\* form; so the count every monthly save divides by, and snapshots, is at least 1.
C26_EmployeesAtLeastOne ==
    /\ settings.employees_count >= 1
    /\ \A i \in 1..Len(commissions) :
          /\ commissions[i].employees_snapshot >= 1
          /\ commissions[i].employee_commission[2] >= 1

\* the settings form was accepted with a count of 0 or below, or blank, and a month
\* was saved under the stored count
C26_Witness ==
    /\ settings.employees_count = 1
    /\ settings # DefaultSettings
    /\ \E i \in 1..Len(commissions) :
          /\ commissions[i].employees_snapshot = 1
          /\ commissions[i].employee_commission[2] = 1
          /\ commissions[i].rate_snapshot = settings.commission_rate

(***************************************************************************)
(* Properties of the cached permission set and of the permission rows.     *)
(***************************************************************************)
\* what every gate decides for a session
GateDecisions(se) ==
    [k \in PERM_KEYS \cup {"admin"} |->
        IF k = "admin" THEN admin_required(se) ELSE permission_required(se, k)]

\* C27: the permission set held in a session changes only in a login of that session,
\* in its logout, or in an update_user that the session sends for its own user id; an
\* update_user or delete_user leaves the session of every other browser, the session
\* of the user it names included, and what the gates decide for it, as they were; and
\* a login holds the set the stored rows give at that time.
C27_CachedPermsFrame ==
    [][\A t \in Sessions :
          /\ sessions'[t].perms # sessions[t].perms
             => \/ \E f \in LoginForms : Login(t, f)
                \/ Logout(t)
                \/ \E f \in PermissionForms : UpdateUser(t, sessions[t].user_id, f)
          /\ (resp'.op \in {"update_user", "delete_user"} /\ resp'.session # t)
             => /\ sessions'[t] = sessions[t]
                /\ GateDecisions(sessions'[t]) = GateDecisions(sessions[t])
          /\ (resp'.op = "login" /\ resp'.session = t /\ resp'.status = 302)
             => sessions'[t].perms = load_user_perms(permissions', sessions'[t].user_id)]_vars

\* a user is logged in at the second browser with no key; the master has since
\* granted that user two keys: the rows hold them, the open session does not
C27_Witness ==
    /\ resp.op = "update_user"
    /\ resp.session = "s1"
    /\ sessions["s2"].logged_in
    /\ sessions["s2"].username = <<"u1">>
    /\ sessions["s2"].perms = {}
    /\ load_user_perms(permissions, sessions["s2"].user_id) = {"home", "records_es1"}
    /\ permission_required(sessions["s2"], "home") = "forbidden"

\* C28: after any sequence of add_user, update_user and delete_user requests, with
\* the id of a user, of no user or none at all, every permission row names an
\* existing user and one of the PERM_KEYS, and no two rows have the same user and key.
C28_PermissionRowsValid ==
    \A r \in permissions :
        /\ \E u \in users : u.id = r.user_id
        /\ r.perm_key \in PERM_KEYS
        /\ \A q \in permissions :
              (q.user_id = r.user_id /\ q.perm_key = r.perm_key) => q = r

(***************************************************************************)
(* Properties of the links from commitments to tasks.                      *)
(***************************************************************************)
\* the titles of the tasks typed on the tasks page
UserTitles == {Strip(f.title) : f \in TaskForms} \ {<<>>}

\* the commitments whose link names the task
LinkedFrom(cs, tid) == {c \in cs : c.task_id = tid}

====
